---------------------------- MODULE Spec2Model ----------------------------
(***************************************************************************)
(* Fuel-tank telemetry service (manourez/tank-simulator).                  *)
(*                                                                         *)
(* The reading pipeline of FuelTankService (src/unnamed/part_001), the     *)
(* sensor simulator (sensor-simulation.service.ts), the repository         *)
(* (database.service.ts) and the seed (prisma/seed.ts) as a state machine. *)
(*                                                                         *)
(* Numbers.  The code computes in IEEE doubles; the model computes the     *)
(* same quantities exactly in integers:                                    *)
(*   lengths (heights, raw distances)   micrometres        (1e-6 m)        *)
(*   stored distanceToFuel              0.01 cm                            *)
(*   stored fuelHeight                  millimetres        (0.001 m)       *)
(*   stored fuelLevelLiters             0.01 l                             *)
(*   stored fuelLevelPercentage         0.01 %                             *)
(*   tank diameter                      decimetres                         *)
(*   tank capacity                      litres                             *)
(*   a Math.random() draw u             hundredths, 0 .. 99                *)
(* Math.PI is the rational PiNum/PiDen (relative error 3e-12).             *)
(***************************************************************************)
EXTENDS Integers, Sequences, FiniteSets, TLC

(***************************************************************************)
(* Exact integer arithmetic for the floating-point expressions             *)
(***************************************************************************)

PiNum == 833719
PiDen == 265381

Max(a, b) == IF a >= b THEN a ELSE b
Min(a, b) == IF a <= b THEN a ELSE b
Abs(a) == IF a >= 0 THEN a ELSE 0 - a

\* Faulty variant: truncation instead of rounding.
MathTrunc(n, d) == n \div d

\* Math.round(n/d) for n >= 0, d > 0: the nearest integer, halves upwards.
MathRound(n, d) == (n \div d) + (IF 2 * (n % d) >= d THEN 1 ELSE 0)

\* <<q, r>> with a * h = q * m + r and 0 <= r < m, six bits of h at a time,
\* so that no intermediate value leaves the 32-bit range (m < 2^24, a < 2^31).
RECURSIVE MulDivMod(_, _, _)
MulDivMod(a, h, m) ==
    IF h = 0 THEN <<0, 0>>
    ELSE LET high == MulDivMod(a, h \div 64, m)
             t    == 64 * high[2] + (h % 64) * (a % m)
         IN  <<64 * high[1] + (h % 64) * (a \div m) + (t \div m), t % m>>

\* Math.round((q + r/m) / c): the rounding of an exact quotient <<q, r>>
\* (remainder r of modulus m) divided once more by the integer c >= 1.
RoundQR(qr, m, c) ==
    LET a == qr[1] \div c
        b == qr[1] % c
    IN  a + (IF 2 * b >= c \/ (2 * b = c - 1 /\ 2 * qr[2] >= m) THEN 1 ELSE 0)

Pow2(n) ==
    <<1, 2, 4, 8, 16, 32, 64, 128, 256, 512, 1024, 2048, 4096, 8192, 16384,
      32768, 65536>>[n + 1]

\* 2^n mod 100: 2^10 = 24, 2^20 = 76, 2^30 = 24, ... (mod 100).
Pow2Mod100(n) ==
    LET tens == n \div 10
        high == IF tens = 0 THEN 1 ELSE IF tens % 2 = 1 THEN 24 ELSE 76
    IN  (high * Pow2(n % 10)) % 100

(***************************************************************************)
(* The double nearest to k/100 (a stored two-decimal value, 0 <= k < 2^14).*)
(* Exponent(k) is s = 52 - e for 2^e <= k/100 < 2^(e+1); the double is     *)
(* m * 2^-s with m = k * 2^s / 100 rounded to nearest, and DoubleErr(k) is *)
(* its representation error in units of 2^-ErrScale / 100.                 *)
(***************************************************************************)
ErrScale == 52 + 7

Exponent(k) ==
    IF k >= 100
    THEN 52 - (CHOOSE e \in 0..7 : 100 * Pow2(e) <= k /\ k < 200 * Pow2(e))
    ELSE 52 + (CHOOSE n \in 1..7 : 100 <= k * Pow2(n) /\ k * Pow2(n) < 200)

DoubleErr(k) ==
    IF k = 0 THEN 0
    ELSE LET s == Exponent(k)
             r == ((k % 100) * Pow2Mod100(s)) % 100
         IN  (IF r < 50 THEN 0 - r ELSE 100 - r) * Pow2(ErrScale - s)

(***************************************************************************)
(* Tanks (prisma/seed.ts)                                                  *)
(***************************************************************************)

\* The modulus of an exact volume: calculateCylindricalVolume returns the
\* volume in units of 1e-4 l as <<q, r>>, that is q + r / VolMod.
VolMod == PiDen * 40

\* Faulty variant: the diameter taken for the radius.
calculateCylindricalVolumeOfDiameter(fuelHeight, diameter) ==
    MulDivMod(PiNum * 4 * diameter * diameter, fuelHeight, VolMod)

\* const volume = Math.PI * Math.pow(radius, 2) * fuelHeight; return volume * 1000
calculateCylindricalVolume(fuelHeight, diameter) ==
    MulDivMod(PiNum * diameter * diameter, fuelHeight, VolMod)

\* Faulty variant: the capacity truncated instead of rounded.
SeedCapacityFloor(diameter, height) ==
    calculateCylindricalVolume(height, diameter)[1] \div 10000

\* capacity: Math.round(Math.PI * Math.pow(radius, 2) * height * 1000)
SeedCapacity(diameter, height) ==
    RoundQR(calculateCylindricalVolume(height, diameter), VolMod, 10000)

SeedTank(id, name, diameter, height) ==
    [id |-> id, name |-> name, diameter |-> diameter, height |-> height,
     capacity |-> SeedCapacity(diameter, height), sensorHeight |-> height]

\* TANK-001 of the seed (2.5 m x 4.0 m, 19635 l) and a small tank created the
\* same way (0.6 m x 1.0 m, 283 l), in creation order.
SeedTanks ==
    << SeedTank("TANK-001", "Main Storage Tank A", 25, 4000000),
       SeedTank("TANK-S", "Small Tank", 6, 1000000) >>

\* A row id is <<tank id, n>> for the n-th row of the tank; null has id <<>>.
NoReading == [id |-> <<>>]

\* The reading the seed stores for a tank: 100 % full.
SeedReading(tank, ts) ==
    [id |-> <<tank.id, ts>>, tankId |-> tank.id, distanceToFuel |-> 0,
     fuelLevelLiters |->
        RoundQR(calculateCylindricalVolume(tank.height, tank.diameter), VolMod, 100),
     fuelLevelPercentage |-> 10000,
     fuelHeight |-> tank.height \div 1000,
     timestamp |-> ts]

(***************************************************************************)
(* Derivation and classification (FuelTankService)                         *)
(***************************************************************************)

\* Faulty variant: the fuel height is not limited to the tank height.
calculateFuelLevelNoUpperClamp(distanceToFuel, tank) ==
    LET fuelHeight == tank.sensorHeight - distanceToFuel
        actualFuelHeight == Max(0, fuelHeight)
        fuelVolumeLiters == calculateCylindricalVolume(actualFuelHeight, tank.diameter)
    IN  [tankId |-> tank.id,
         distanceToFuel |-> MathRound(distanceToFuel, 100),
         fuelLevelLiters |-> RoundQR(fuelVolumeLiters, VolMod, 100),
         fuelLevelPercentage |-> RoundQR(fuelVolumeLiters, VolMod, tank.capacity),
         fuelHeight |-> MathRound(actualFuelHeight, 1000)]

\* Faulty variant: Math.abs in place of Math.max(0, ...).
calculateFuelLevelAbs(distanceToFuel, tank) ==
    LET fuelHeight == tank.sensorHeight - distanceToFuel
        actualFuelHeight == Abs(Min(fuelHeight, tank.height))
        fuelVolumeLiters == calculateCylindricalVolume(actualFuelHeight, tank.diameter)
    IN  [tankId |-> tank.id,
         distanceToFuel |-> MathRound(distanceToFuel, 100),
         fuelLevelLiters |-> RoundQR(fuelVolumeLiters, VolMod, 100),
         fuelLevelPercentage |-> RoundQR(fuelVolumeLiters, VolMod, tank.capacity),
         fuelHeight |-> MathRound(actualFuelHeight, 1000)]

\* calculateFuelLevel(distanceToFuel, tank), distanceToFuel in micrometres
calculateFuelLevel(distanceToFuel, tank) ==
    LET fuelHeight == tank.sensorHeight - distanceToFuel
        actualFuelHeight == Max(0, Min(fuelHeight, tank.height))
        fuelVolumeLiters == calculateCylindricalVolume(actualFuelHeight, tank.diameter)
    IN  [tankId |-> tank.id,
         distanceToFuel |-> MathRound(distanceToFuel, 100),
         fuelLevelLiters |-> RoundQR(fuelVolumeLiters, VolMod, 100),
         fuelLevelPercentage |-> RoundQR(fuelVolumeLiters, VolMod, tank.capacity),
         fuelHeight |-> MathRound(actualFuelHeight, 1000)]

\* Faulty variant: the 'full' threshold taken strictly.
getFuelStatusStrict95(percentage) ==
    IF percentage > 9500 THEN "full"
    ELSE IF percentage < 1000 THEN "critical"
    ELSE IF percentage < 2500 THEN "low"
    ELSE "normal"

\* Faulty variant: 'low' and 'critical' exchanged.
getFuelStatusSwapped(percentage) ==
    IF percentage >= 9500 THEN "full"
    ELSE IF percentage < 1000 THEN "low"
    ELSE IF percentage < 2500 THEN "critical"
    ELSE "normal"

\* getFuelStatus(percentage), percentage in hundredths of a percent
getFuelStatus(percentage) ==
    IF percentage >= 9500 THEN "full"
    ELSE IF percentage < 1000 THEN "critical"
    ELSE IF percentage < 2500 THEN "low"
    ELSE "normal"

\* Math.abs(a - b) > 0.1 on the doubles nearest to a/100 and b/100.  A decimal
\* difference other than 0.10 is far from the threshold; at 0.10 the result
\* is decided by the representation errors of the two doubles and of 0.1,
\* the difference being rounded to nearest (ties to even) before comparing.
ExceedsTenth(a, b) ==
    LET hi == Max(a, b)
        lo == Min(a, b)
    IN  IF hi - lo # 10 THEN hi - lo > 10
        ELSE DoubleErr(hi) - DoubleErr(lo) - DoubleErr(10)
                > 50 * Pow2(ErrScale - 56)

\* const significantChange = !latestReading || Math.abs(...) > 0.1
significantChange(latestReading, savedReading) ==
    \/ latestReading.id = <<>>
    \/ ExceedsTenth(savedReading.fuelLevelPercentage,
                    latestReading.fuelLevelPercentage)

(***************************************************************************)
(* Sensor simulator (SensorSimulationService)                              *)
(***************************************************************************)

\* Faulty variant: thresholds 10, 25 and 75 taken inclusively.
determineScenarioInclusive(tankId, currentFuelHeight, tankHeight, random) ==
    IF currentFuelHeight * 100 <= 10 * tankHeight
    THEN (IF random < 70 THEN "refill" ELSE "emergency")
    ELSE IF currentFuelHeight * 100 <= 25 * tankHeight
    THEN (IF random < 60 THEN "refill" ELSE "consumption")
    ELSE IF currentFuelHeight * 100 >= 75 * tankHeight
    THEN (IF random < 80 THEN "consumption" ELSE "stable")
    ELSE IF random < 50 THEN "consumption"
    ELSE IF random < 80 THEN "stable"
    ELSE "refill"

\* fuelPercentage = currentFuelHeight / tankHeight * 100, compared exactly.
determineScenario(tankId, currentFuelHeight, tankHeight, random) ==
    IF currentFuelHeight * 100 < 10 * tankHeight
    THEN (IF random < 70 THEN "refill" ELSE "emergency")
    ELSE IF currentFuelHeight * 100 < 25 * tankHeight
    THEN (IF random < 60 THEN "refill" ELSE "consumption")
    ELSE IF currentFuelHeight * 100 > 75 * tankHeight
    THEN (IF random < 80 THEN "consumption" ELSE "stable")
    ELSE IF random < 50 THEN "consumption"
    ELSE IF random < 80 THEN "stable"
    ELSE "refill"

\* Faulty variant: consumption and emergency are not clamped at 0.
newFuelHeightNoFloor(scenario, currentFuelHeight, tankHeight, uDelta) ==
    CASE scenario = "consumption" ->
            currentFuelHeight - (5000 + uDelta * 250)
      [] scenario = "refill" ->
            Min(tankHeight, currentFuelHeight + (20000 + uDelta * 800))
      [] scenario = "stable" ->
            Max(0, Min(tankHeight, currentFuelHeight + (uDelta - 50) * 100))
      [] scenario = "emergency" ->
            currentFuelHeight - uDelta * 50

\* The switch of generateSensorReading: newFuelHeight by scenario, in
\* micrometres; uDelta is the draw of Math.random() in hundredths.
newFuelHeight(scenario, currentFuelHeight, tankHeight, uDelta) ==
    CASE scenario = "consumption" ->
            Max(0, currentFuelHeight - (5000 + uDelta * 250))
      [] scenario = "refill" ->
            Min(tankHeight, currentFuelHeight + (20000 + uDelta * 800))
      [] scenario = "stable" ->
            Max(0, Min(tankHeight, currentFuelHeight + (uDelta - 50) * 100))
      [] scenario = "emergency" ->
            Max(0, currentFuelHeight - uDelta * 50)

\* Faulty variant: the final distance is not clamped.
generateSensorReadingNoClamp(scenario, currentFuelHeight, tankHeight, uDelta, uNoise) ==
    LET sensorHeight == tankHeight
        distanceToFuel ==
            sensorHeight - newFuelHeight(scenario, currentFuelHeight, tankHeight, uDelta)
        noise == (uNoise - 50) * 200
    IN  distanceToFuel + noise

\* generateSensorReading(scenario, currentFuelHeight, tankHeight): heights
\* and the returned distance in micrometres
\* Faulty variant: the noise spans 20 cm instead of 2 cm.
generateSensorReadingWideNoise(scenario, currentFuelHeight, tankHeight, uDelta, uNoise) ==
    LET sensorHeight == tankHeight
        distanceToFuel ==
            sensorHeight - newFuelHeight(scenario, currentFuelHeight, tankHeight, uDelta)
        noise == (uNoise - 50) * 2000
    IN  Max(0, Min(sensorHeight, distanceToFuel + noise))

generateSensorReading(scenario, currentFuelHeight, tankHeight, uDelta, uNoise) ==
    LET sensorHeight == tankHeight
        distanceToFuel ==
            sensorHeight - newFuelHeight(scenario, currentFuelHeight, tankHeight, uDelta)
        noise == (uNoise - 50) * 200
    IN  Max(0, Min(sensorHeight, distanceToFuel + noise))

simulateSensorReading(tankId, currentFuelHeight, tankHeight, random, uDelta, uNoise) ==
    generateSensorReading(
        determineScenario(tankId, currentFuelHeight, tankHeight, random),
        currentFuelHeight, tankHeight, uDelta, uNoise)

\* Faulty variant: minPercentage 10 instead of 20.
getInitialFuelLevelFrom10(tankHeight, u) ==
    tankHeight - MulDivMod(1000 + 70 * u, tankHeight, 10000)[1]

\* percentage = 20 + Math.random() * 60; fuelHeight = percentage / 100 * tankHeight
getInitialFuelLevel(tankHeight, u) ==
    LET fuelHeight == MulDivMod(2000 + 60 * u, tankHeight, 10000)[1]
    IN  tankHeight - fuelHeight

(***************************************************************************)
(* Bounds and inputs                                                       *)
(***************************************************************************)

\* Ticks (simulateAndProcessReading calls) the operations of one run may
\* start: an automated cycle reserves one per tank, a manual trigger one.
MaxTicks == 3

\* Math.random() draws, in hundredths.
ScenarioDraws == {0, 65, 85}
DeltaDraws == {40}
NoiseDraws == {50}
InitDraws == {0, 50}

\* The database at start: the tanks that have the seed's reading.
SeededChoices == {{}, {"TANK-001"}}

Procs == {"boot", "cron", "m1"}
Workers == {"cron", "m1"}
Manuals == {"m1"}
RequestIds == {"TANK-S", "NON-EXISTENT"}

(***************************************************************************)
(* State                                                                   *)
(*                                                                         *)
(* Timestamps are compared only among the rows of one tank (every query    *)
(* has where: { tankId }), so a row's timestamp is kept as its position in *)
(* the tank's insert order: the database clock advances between inserts.   *)
(* History variables (ops, rowCall, and an event's readingId and call)     *)
(* record which call did what; the program does not read them.             *)
(***************************************************************************)
VARIABLES
    tanks,      \* Tank table, in createdAt order
    readings,   \* FuelReading table: per tank, its rows in insert order
    published,  \* every event handed to fuelLevelUpdates.next, in order
    app,        \* "booting" | "running" | "crashed"
    procs,      \* per async activity: position and locals
    ops,        \* history: per activity, the operations it started, each
                \*   with its calls (ticks, per-tank initialisations)
    rowCall,    \* history: per tank and row, the call that inserted it
    reserved,   \* ticks reserved by the operations started
    faulted,    \* a repository call has failed in this run
    restarted,  \* the process has been started again
    probe,      \* the last application of a pure function: inputs and result
    subs,       \* per subscriber of fuelLevelUpdates: its subscription
    received,   \* per subscriber: the events delivered to it, by their
                \*   position in published, in delivery order
    api,        \* the last response of a read endpoint of the controller
    sse         \* the upstream SSE connection of the SSE-consumer variant:
                \*   connectionStatus, reconnectTimer, abortController, the
                \*   requests and streams under way

vars == <<tanks, readings, published, app, procs, ops, rowCall, reserved,
          faulted, restarted, probe, subs, received, api, sse>>

\* The variables the reading pipeline leaves alone
aux == <<probe, subs, received, api, sse>>

NoProbe == [fn |-> "none"]

\* private reconnectInterval = 5000 (ms)
reconnectInterval == 5000

\* Upstream requests and streams under way at one time
MaxConnections == 3
Connections == 1..MaxConnections

NoTimer == [state |-> "undefined", remaining |-> 0]

\* The fields of the SSE consumer after construction.  conns is the state
\* of each upstream request or stream; timers is the number of timers of
\* scheduleReconnect pending in the event loop (armed, neither fired nor
\* cleared).  disconnected, event and reports are history: disconnect() was
\* called and connectToSSE has not been called by a caller since; what ran
\* last; the number of 'end' and 'error' events the stream has reported
\* when what ran last was the termination of a stream.
NoSse == [connectionStatus |-> FALSE, reconnectTimer |-> NoTimer,
          abortController |-> 0, conns |-> [c \in Connections |-> "free"],
          timers |-> 0, disconnected |-> FALSE, event |-> "none", reports |-> 0]

Subscribers == {"s1", "s2"}
NoSubscription == [state |-> "none", from |-> 0, to |-> 0]

Idle == [pc |-> "idle", i |-> 0, tankId |-> "", latest |-> NoReading,
         saved |-> NoReading]

TankIds == {tanks[i].id : i \in 1..Len(tanks)}

RECURSIVE SeqToSet(_)
SeqToSet(s) == IF s = <<>> THEN {} ELSE {Head(s)} \cup SeqToSet(Tail(s))

(***************************************************************************)
(* Repository (DatabaseService)                                            *)
(***************************************************************************)

\* prisma.tank.findUnique({ where: { id } }): the set of results (empty: null)
getTankById(id) == {tanks[i] : i \in {j \in 1..Len(tanks) : tanks[j].id = id}}

\* prisma.tank.findMany({ orderBy: { createdAt: 'asc' } })
getAllTanks == tanks

RowsOf(tankId) ==
    IF tankId \in DOMAIN readings THEN SeqToSet(readings[tankId]) ELSE {}

\* Faulty variant: orderBy timestamp 'asc', the earliest row.
getEarliestReadingForTank(tankId) ==
    LET rows == RowsOf(tankId)
    IN  IF rows = {} THEN {NoReading}
        ELSE {r \in rows : \A o \in rows : o.timestamp >= r.timestamp}

\* prisma.fuelReading.findFirst({ where: { tankId }, orderBy: { timestamp: 'desc' } }):
\* the rows it may return (null: NoReading).
getLatestReadingForTank(tankId) ==
    LET rows == RowsOf(tankId)
    IN  IF rows = {} THEN {NoReading}
        ELSE {r \in rows : \A o \in rows : o.timestamp <= r.timestamp}

\* prisma.fuelReading.create({ data: reading }): the row created, with
\* id @default(cuid()) and timestamp @default(now()).
addFuelReading(reading) ==
    LET n == Len(readings[reading.tankId]) + 1
    IN  [id |-> <<reading.tankId, n>>, tankId |-> reading.tankId,
         distanceToFuel |-> reading.distanceToFuel,
         fuelLevelLiters |-> reading.fuelLevelLiters,
         fuelLevelPercentage |-> reading.fuelLevelPercentage,
         fuelHeight |-> reading.fuelHeight, timestamp |-> n]

\* Faulty variant: create written as an upsert keyed by the tank, replacing
\* the tank's latest row.
InsertReplacingLatest(row, call) ==
    /\ readings' = [readings EXCEPT ![row.tankId] =
                        IF @ = <<>> THEN <<row>> ELSE [@ EXCEPT ![Len(@)] = row]]
    /\ rowCall' = [rowCall EXCEPT ![row.tankId] =
                        IF @ = <<>> THEN <<call>> ELSE [@ EXCEPT ![Len(@)] = call]]

Insert(row, call) ==
    /\ readings' = [readings EXCEPT ![row.tankId] = Append(@, row)]
    /\ rowCall' = [rowCall EXCEPT ![row.tankId] = Append(@, call)]

(***************************************************************************)
(* Events                                                                  *)
(***************************************************************************)

\* Faulty variant: tankCapacity filled from the reading's litres.
emitFuelLevelUpdateLitresAsCapacity(tank, reading, call) ==
    [type |-> "fuel_level_update",
     data |-> [tankId |-> tank.id, tankName |-> tank.name,
               fuelLevelLiters |-> reading.fuelLevelLiters,
               fuelLevelPercentage |-> reading.fuelLevelPercentage,
               fuelHeight |-> reading.fuelHeight,
               distanceToFuel |-> reading.distanceToFuel,
               tankCapacity |-> reading.fuelLevelLiters,
               timestamp |-> reading.timestamp,
               status |-> getFuelStatus(reading.fuelLevelPercentage)],
     readingId |-> reading.id, call |-> call]

\* emitFuelLevelUpdate(tank, reading): the event handed to the Subject.
emitFuelLevelUpdate(tank, reading, call) ==
    [type |-> "fuel_level_update",
     data |-> [tankId |-> tank.id, tankName |-> tank.name,
               fuelLevelLiters |-> reading.fuelLevelLiters,
               fuelLevelPercentage |-> reading.fuelLevelPercentage,
               fuelHeight |-> reading.fuelHeight,
               distanceToFuel |-> reading.distanceToFuel,
               tankCapacity |-> tank.capacity,
               timestamp |-> reading.timestamp,
               status |-> getFuelStatus(reading.fuelLevelPercentage)],
     readingId |-> reading.id, call |-> call]

(***************************************************************************)
(* Initial state: the tanks of the seed; a tank has the seed's reading or  *)
(* (a tank created without one) no reading.  The process is booting.       *)
(***************************************************************************)

NewOp(kind, arg) ==
    [kind |-> kind, arg |-> arg, state |-> "running", error |-> <<>>,
     ret |-> NoReading, calls |-> <<>>]

Init ==
    /\ tanks = SeedTanks
    /\ \E seeded \in SeededChoices :
          /\ readings = [id \in {SeedTanks[i].id : i \in 1..Len(SeedTanks)} |->
                            IF id \in seeded
                            THEN <<SeedReading(
                                     CHOOSE t \in SeqToSet(SeedTanks) : t.id = id, 1)>>
                            ELSE <<>>]
          /\ rowCall = [id \in {SeedTanks[i].id : i \in 1..Len(SeedTanks)} |->
                            IF id \in seeded THEN << <<>> >> ELSE <<>>]
    /\ published = <<>>
    /\ app = "booting"
    /\ procs = [p \in Procs |-> IF p = "boot" THEN [Idle EXCEPT !.pc = "init_list"]
                                ELSE Idle]
    /\ ops = [p \in Procs |-> IF p = "boot" THEN <<NewOp("init", "")>> ELSE <<>>]
    /\ reserved = 0
    /\ faulted = FALSE
    /\ restarted = FALSE
    /\ probe = NoProbe
    /\ subs = [s \in Subscribers |-> NoSubscription]
    /\ received = [s \in Subscribers |-> <<>>]
    /\ api = NoProbe
    /\ sse = NoSse

(***************************************************************************)
(* Helpers of the actions                                                  *)
(***************************************************************************)

TankOf(id) == CHOOSE t \in getTankById(id) : TRUE

\* The operation activity p is running, and the call it is in: <<p, o, c>>.
CurOp(p) == Len(ops[p])
CurCall(p) == <<p, CurOp(p), Len(ops[p][CurOp(p)].calls)>>

OpenCall(p, latest, state) ==
    [ops EXCEPT ![p][CurOp(p)].calls =
        Append(@, [tankId |-> procs[p].tankId, state |-> state,
                   latestId |-> latest.id])]

CloseCall(o, p, state) ==
    [o EXCEPT ![p][CurOp(p)].calls[Len(o[p][CurOp(p)].calls)].state = state]

CloseOp(o, p, state, error, ret) ==
    [o EXCEPT ![p][CurOp(p)].state = state, ![p][CurOp(p)].error = error,
              ![p][CurOp(p)].ret = ret]

\* The boot loop after the tank at index i: the next tank, or the end of
\* onModuleInit, after which the scheduler and the HTTP server start.
BootNext(i, o) ==
    IF i < Len(tanks)
    THEN /\ procs' = [procs EXCEPT !["boot"] =
                        [Idle EXCEPT !.pc = "init_read", !.i = i + 1,
                                     !.tankId = tanks[i + 1].id]]
         /\ app' = app
         /\ ops' = o
    ELSE /\ procs' = [procs EXCEPT !["boot"] = Idle]
         /\ app' = "running"
         /\ ops' = CloseOp(o, "boot", "done", <<>>, NoReading)

\* Faulty variant: the loop of performAutomatedReadings returns after the
\* first tank.
TickReturnAfterFirst(p, o) ==
    IF p \in Manuals
    THEN /\ procs' = [procs EXCEPT ![p] =
                        [Idle EXCEPT !.pc = "m_result", !.tankId = procs[p].tankId]]
         /\ ops' = o
    ELSE /\ procs' = [procs EXCEPT ![p] = Idle]
         /\ ops' = CloseOp(o, p, "done", <<>>, NoReading)

\* The caller's continuation after await simulateAndProcessReading(tank).
TickReturn(p, o) ==
    IF p \in Manuals
    THEN /\ procs' = [procs EXCEPT ![p] =
                        [Idle EXCEPT !.pc = "m_result", !.tankId = procs[p].tankId]]
         /\ ops' = o
    ELSE IF procs[p].i < Len(tanks)
    THEN /\ procs' = [procs EXCEPT ![p] =
                        [Idle EXCEPT !.pc = "tick_read", !.i = procs[p].i + 1,
                                     !.tankId = tanks[procs[p].i + 1].id]]
         /\ ops' = o
    ELSE /\ procs' = [procs EXCEPT ![p] = Idle]
         /\ ops' = CloseOp(o, p, "done", <<>>, NoReading)

(***************************************************************************)
(* onModuleInit -> initializeAllTanks                                      *)
(***************************************************************************)

\* const tanks = await this.databaseService.getAllTanks()
InitList ==
    /\ app = "booting"
    /\ procs["boot"].pc = "init_list"
    /\ BootNext(0, ops)
    /\ UNCHANGED <<aux, tanks, readings, published, rowCall, reserved, faulted, restarted>>

\* Faulty variant: the existing reading is not looked at.
InitReadAlways ==
    /\ app = "booting"
    /\ procs["boot"].pc = "init_read"
    /\ ops' = OpenCall("boot", NoReading, "running")
    /\ procs' = [procs EXCEPT !["boot"].pc = "init_save"]
    /\ UNCHANGED <<aux, tanks, readings, published, app, rowCall, reserved, faulted,
                   restarted>>

\* const existingReading = await getLatestReadingForTank(tank.id)
InitRead ==
    /\ app = "booting"
    /\ procs["boot"].pc = "init_read"
    /\ \E existingReading \in getLatestReadingForTank(procs["boot"].tankId) :
          IF existingReading.id = <<>>
          THEN /\ ops' = OpenCall("boot", existingReading, "running")
               /\ procs' = [procs EXCEPT !["boot"].pc = "init_save"]
               /\ app' = app
          ELSE BootNext(procs["boot"].i, ops)
    /\ UNCHANGED <<aux, tanks, readings, published, rowCall, reserved, faulted, restarted>>

\* initialDistance, readingData; savedReading = await addFuelReading(readingData)
InitSave ==
    /\ app = "booting"
    /\ procs["boot"].pc = "init_save"
    /\ \E u \in InitDraws :
          LET tank == TankOf(procs["boot"].tankId)
              initialDistance == getInitialFuelLevel(tank.height, u)
              readingData == calculateFuelLevel(initialDistance, tank)
              savedReading == addFuelReading(readingData)
          IN  /\ Insert(savedReading, CurCall("boot"))
              /\ procs' = [procs EXCEPT !["boot"].pc = "init_emit",
                                        !["boot"].saved = savedReading]
    /\ UNCHANGED <<aux, tanks, published, app, ops, reserved, faulted, restarted>>

\* this.emitFuelLevelUpdate(tank, savedReading), then the next tank
InitEmit ==
    /\ app = "booting"
    /\ procs["boot"].pc = "init_emit"
    /\ published' = Append(published,
            emitFuelLevelUpdate(TankOf(procs["boot"].tankId), procs["boot"].saved,
                                CurCall("boot")))
    /\ BootNext(procs["boot"].i, CloseCall(ops, "boot", "done"))
    /\ UNCHANGED <<aux, tanks, readings, rowCall, reserved, faulted, restarted>>

(***************************************************************************)
(* @Cron performAutomatedReadings                                          *)
(***************************************************************************)

CronStart ==
    /\ app = "running"
    /\ procs["cron"].pc = "idle"
    /\ reserved + Len(tanks) <= MaxTicks
    /\ ops' = [ops EXCEPT !["cron"] = Append(@, NewOp("cycle", ""))]
    /\ procs' = [procs EXCEPT !["cron"].pc = "cycle_list"]
    /\ reserved' = reserved + Len(tanks)
    /\ UNCHANGED <<aux, tanks, readings, published, app, rowCall, faulted, restarted>>

\* const tanks = await this.databaseService.getAllTanks(); for (const tank of tanks)
CycleList ==
    /\ procs["cron"].pc = "cycle_list"
    /\ IF Len(getAllTanks) = 0
       THEN /\ procs' = [procs EXCEPT !["cron"] = Idle]
            /\ ops' = CloseOp(ops, "cron", "done", <<>>, NoReading)
       ELSE /\ procs' = [procs EXCEPT !["cron"].pc = "tick_read", !["cron"].i = 1,
                                      !["cron"].tankId = getAllTanks[1].id]
            /\ ops' = ops
    /\ UNCHANGED <<aux, tanks, readings, published, app, rowCall, reserved, faulted,
                   restarted>>

(***************************************************************************)
(* simulateAndProcessReading(tank)                                         *)
(***************************************************************************)

\* const latestReading = await getLatestReadingForTank(tank.id)
TickRead(p) ==
    /\ procs[p].pc = "tick_read"
    /\ \E latestReading \in getLatestReadingForTank(procs[p].tankId) :
          /\ ops' = OpenCall(p, latestReading, "running")
          /\ procs' = [procs EXCEPT ![p].pc = "tick_save", ![p].latest = latestReading]
    /\ UNCHANGED <<aux, tanks, readings, published, app, rowCall, reserved, faulted,
                   restarted>>

\* Faulty variant: without a latest reading the simulator is given the full
\* tank height.
TickSaveFallbackFull(p) ==
    /\ procs[p].pc = "tick_save"
    /\ \E random \in ScenarioDraws, uDelta \in DeltaDraws, uNoise \in NoiseDraws :
          LET tank == TankOf(procs[p].tankId)
              latestReading == procs[p].latest
              currentFuelHeight == IF latestReading.id # <<>>
                                   THEN latestReading.fuelHeight * 1000
                                   ELSE tank.height
              simulatedDistance ==
                  simulateSensorReading(tank.id, currentFuelHeight, tank.height,
                                        random, uDelta, uNoise)
              readingData == calculateFuelLevel(simulatedDistance, tank)
              savedReading == addFuelReading(readingData)
          IN  /\ Insert(savedReading, CurCall(p))
              /\ procs' = [procs EXCEPT ![p].pc = "tick_emit", ![p].saved = savedReading]
    /\ UNCHANGED <<aux, tanks, published, app, ops, reserved, faulted, restarted>>

\* Faulty variant: the event is handed to the Subject when the write is
\* issued, before it has completed.
TickSavePublishFirst(p) ==
    /\ procs[p].pc = "tick_save"
    /\ \E random \in ScenarioDraws, uDelta \in DeltaDraws, uNoise \in NoiseDraws :
          LET tank == TankOf(procs[p].tankId)
              latestReading == procs[p].latest
              currentFuelHeight == IF latestReading.id # <<>>
                                   THEN latestReading.fuelHeight * 1000
                                   ELSE tank.height \div 2
              simulatedDistance ==
                  simulateSensorReading(tank.id, currentFuelHeight, tank.height,
                                        random, uDelta, uNoise)
              readingData == calculateFuelLevel(simulatedDistance, tank)
              savedReading == addFuelReading(readingData)
          IN  /\ published' = Append(published,
                                     emitFuelLevelUpdate(tank, savedReading, CurCall(p)))
              /\ procs' = [procs EXCEPT ![p].pc = "tick_emit", ![p].saved = savedReading]
    /\ UNCHANGED <<aux, tanks, readings, rowCall, app, ops, reserved, faulted,
                   restarted>>

\* Faulty variant: the tick writes the measured level back to the tank row.
TickSaveUpdatesTank(p) ==
    /\ procs[p].pc = "tick_save"
    /\ \E random \in ScenarioDraws, uDelta \in DeltaDraws, uNoise \in NoiseDraws :
          LET tank == TankOf(procs[p].tankId)
              latestReading == procs[p].latest
              currentFuelHeight == IF latestReading.id # <<>>
                                   THEN latestReading.fuelHeight * 1000
                                   ELSE tank.height \div 2
              simulatedDistance ==
                  simulateSensorReading(tank.id, currentFuelHeight, tank.height,
                                        random, uDelta, uNoise)
              readingData == calculateFuelLevel(simulatedDistance, tank)
              savedReading == addFuelReading(readingData)
          IN  /\ Insert(savedReading, CurCall(p))
              /\ tanks' = [i \in DOMAIN tanks |->
                             IF tanks[i].id = tank.id
                             THEN [tanks[i] EXCEPT !.name = "updated"]
                             ELSE tanks[i]]
              /\ procs' = [procs EXCEPT ![p].pc = "tick_emit", ![p].saved = savedReading]
    /\ UNCHANGED <<aux, published, app, ops, reserved, faulted, restarted>>

\* Faulty variant: only a significant reading is written.
TickSaveIfSignificant(p) ==
    /\ procs[p].pc = "tick_save"
    /\ \E random \in ScenarioDraws, uDelta \in DeltaDraws, uNoise \in NoiseDraws :
          LET tank == TankOf(procs[p].tankId)
              latestReading == procs[p].latest
              currentFuelHeight == IF latestReading.id # <<>>
                                   THEN latestReading.fuelHeight * 1000
                                   ELSE tank.height \div 2
              simulatedDistance ==
                  simulateSensorReading(tank.id, currentFuelHeight, tank.height,
                                        random, uDelta, uNoise)
              readingData == calculateFuelLevel(simulatedDistance, tank)
              savedReading == addFuelReading(readingData)
          IN  /\ IF significantChange(latestReading, savedReading)
                 THEN Insert(savedReading, CurCall(p))
                 ELSE UNCHANGED <<readings, rowCall>>
              /\ procs' = [procs EXCEPT ![p].pc = "tick_emit", ![p].saved = savedReading]
    /\ UNCHANGED <<aux, tanks, published, app, ops, reserved, faulted, restarted>>

\* currentFuelHeight, simulatedDistance, readingData;
\* const savedReading = await addFuelReading(readingData)
TickSave(p) ==
    /\ procs[p].pc = "tick_save"
    /\ \E random \in ScenarioDraws, uDelta \in DeltaDraws, uNoise \in NoiseDraws :
          LET tank == TankOf(procs[p].tankId)
              latestReading == procs[p].latest
              currentFuelHeight == IF latestReading.id # <<>>
                                   THEN latestReading.fuelHeight * 1000
                                   ELSE tank.height \div 2
              simulatedDistance ==
                  simulateSensorReading(tank.id, currentFuelHeight, tank.height,
                                        random, uDelta, uNoise)
              readingData == calculateFuelLevel(simulatedDistance, tank)
              savedReading == addFuelReading(readingData)
          IN  /\ Insert(savedReading, CurCall(p))
              /\ procs' = [procs EXCEPT ![p].pc = "tick_emit", ![p].saved = savedReading]
    /\ UNCHANGED <<aux, tanks, published, app, ops, reserved, faulted, restarted>>

\* if (significantChange) this.emitFuelLevelUpdate(tank, savedReading); return
TickEmit(p) ==
    /\ procs[p].pc = "tick_emit"
    /\ published' =
          IF significantChange(procs[p].latest, procs[p].saved)
          THEN Append(published,
                      emitFuelLevelUpdate(TankOf(procs[p].tankId), procs[p].saved,
                                          CurCall(p)))
          ELSE published
    /\ TickReturn(p, CloseCall(ops, p, "done"))
    /\ UNCHANGED <<aux, tanks, readings, app, rowCall, reserved, faulted, restarted>>

(***************************************************************************)
(* triggerManualReading(tankId)                                            *)
(***************************************************************************)

ManualStart(p, tankId) ==
    /\ app = "running"
    /\ procs[p].pc = "idle"
    /\ reserved + 1 <= MaxTicks
    /\ ops' = [ops EXCEPT ![p] = Append(@, NewOp("manual", tankId))]
    /\ procs' = [procs EXCEPT ![p].pc = "m_lookup", ![p].tankId = tankId]
    /\ reserved' = reserved + 1
    /\ UNCHANGED <<aux, tanks, readings, published, app, rowCall, faulted, restarted>>

\* Faulty variant: an unknown tank makes the call return null instead of
\* throwing.
ManualLookupNoThrow(p) ==
    /\ procs[p].pc = "m_lookup"
    /\ IF getTankById(procs[p].tankId) = {}
       THEN /\ ops' = CloseOp(ops, p, "done", <<>>, NoReading)
            /\ procs' = [procs EXCEPT ![p] = Idle]
       ELSE /\ procs' = [procs EXCEPT ![p].pc = "tick_read"]
            /\ ops' = ops
    /\ UNCHANGED <<aux, tanks, readings, published, app, rowCall, reserved, faulted,
                   restarted>>

\* const tank = await this.getTankById(tankId); if (!tank) throw new Error(...)
ManualLookup(p) ==
    /\ procs[p].pc = "m_lookup"
    /\ IF getTankById(procs[p].tankId) = {}
       THEN /\ ops' = CloseOp(ops, p, "failed",
                              <<"Tank", procs[p].tankId, "not found">>, NoReading)
            /\ procs' = [procs EXCEPT ![p] = Idle]
       ELSE /\ procs' = [procs EXCEPT ![p].pc = "tick_read"]
            /\ ops' = ops
    /\ UNCHANGED <<aux, tanks, readings, published, app, rowCall, reserved, faulted,
                   restarted>>

\* return this.getLatestReading(tankId)
ManualResult(p) ==
    /\ procs[p].pc = "m_result"
    /\ \E reading \in getLatestReadingForTank(procs[p].tankId) :
          ops' = CloseOp(ops, p, "done", <<>>, reading)
    /\ procs' = [procs EXCEPT ![p] = Idle]
    /\ UNCHANGED <<aux, tanks, readings, published, app, rowCall, reserved, faulted,
                   restarted>>

(***************************************************************************)
(* A repository call rejects (at most one per run): the exception leaves   *)
(* the awaiting function and, nothing catching it, every caller up to the  *)
(* operation.  A failed onModuleInit ends the process.                     *)
(***************************************************************************)

DbPoints == {"init_list", "init_read", "init_save", "cycle_list", "tick_read",
             "tick_save", "m_lookup", "m_result"}

DbFail(p) ==
    /\ ~faulted
    /\ procs[p].pc \in DbPoints
    /\ faulted' = TRUE
    /\ ops' = CloseOp(
                IF procs[p].pc = "tick_read" THEN OpenCall(p, NoReading, "read_failed")
                ELSE IF procs[p].pc \in {"tick_save", "init_save"}
                     THEN CloseCall(ops, p, "save_failed")
                     ELSE ops,
                p, "failed", <<"PersistenceFailure">>, NoReading)
    /\ procs' = [procs EXCEPT ![p] = Idle]
    /\ app' = IF p = "boot" THEN "crashed" ELSE app
    /\ UNCHANGED <<aux, tanks, readings, published, rowCall, reserved, restarted>>

(***************************************************************************)
(* The process is started again on the same database (bootstrap), before   *)
(* it has started an operation or after onModuleInit failed.               *)
(***************************************************************************)

Restart ==
    /\ ~restarted
    /\ reserved = 0
    /\ app \in {"running", "crashed"}
    /\ \A p \in Procs : procs[p].pc = "idle"
    /\ restarted' = TRUE
    /\ app' = "booting"
    /\ ops' = [ops EXCEPT !["boot"] = Append(@, NewOp("init", ""))]
    /\ procs' = [procs EXCEPT !["boot"] = [Idle EXCEPT !.pc = "init_list"]]
    /\ UNCHANGED <<aux, tanks, readings, published, rowCall, reserved, faulted>>

Next ==
    \/ InitList
    \/ InitRead
    \/ InitSave
    \/ InitEmit
    \/ CronStart
    \/ CycleList
    \/ \E p \in Workers : TickRead(p)
    \/ \E p \in Workers : TickSave(p)
    \/ \E p \in Workers : TickEmit(p)
    \/ \E p \in Manuals, tankId \in RequestIds : ManualStart(p, tankId)
    \/ \E p \in Manuals : ManualLookup(p)
    \/ \E p \in Manuals : ManualResult(p)
    \/ \E p \in Procs : DbFail(p)
    \/ Restart

Spec == Init /\ [][Next]_vars

(***************************************************************************)
(* The pure functions applied to inputs drawn from bounded sets            *)
(***************************************************************************)

\* Percentages in hundredths of a percent, around every threshold and
\* outside [0, 100].
Percentages == {-500, -1, 0, 999, 1000, 1001, 2499, 2500, 2501, 5000, 9499,
                9500, 9501, 10000, 10001, 10500}

\* Tank geometries: diameter in dm, height in micrometres.
Diameters == {6, 10, 18, 20, 25}
Heights == {1000000, 2500000, 3500000, 4000000}

\* Math.random() draws of getInitialFuelLevel, in hundredths.
InitialDraws == {0, 1, 50, 99}

\* getFuelStatus applied to two percentages
ProbeFuelStatus ==
    /\ probe = NoProbe
    /\ \E p1 \in Percentages, p2 \in Percentages :
          probe' = [fn |-> "getFuelStatus", p1 |-> p1, p2 |-> p2,
                    s1 |-> getFuelStatus(p1), s2 |-> getFuelStatus(p2)]
    /\ UNCHANGED <<sse, subs, received, api, tanks, readings, published, app, procs, ops,
                   rowCall, reserved, faulted, restarted>>

\* The reading initializeAllTanks derives for a tank without a reading:
\* getInitialFuelLevel, then calculateFuelLevel.
ProbeInitialReading ==
    /\ probe = NoProbe
    /\ \E diameter \in Diameters, height \in Heights, u \in InitialDraws :
          LET tank == SeedTank("TANK-P", "Probe Tank", diameter, height)
              initialDistance == getInitialFuelLevel(tank.height, u)
              readingData == calculateFuelLevel(initialDistance, tank)
          IN  probe' = [fn |-> "initializeAllTanks", tank |-> tank, u |-> u,
                        reading |-> readingData]
    /\ UNCHANGED <<sse, subs, received, api, tanks, readings, published, app, procs, ops,
                   rowCall, reserved, faulted, restarted>>

\* Tank heights of the derivation, one of them no whole number of
\* millimetres; sensor mounting relative to the tank height; raw distances.
DeriveHeights == Heights \cup {2499600}
SensorOffsets == {-100000, 0, 100000}
RawDistances(tank) ==
    {-50000, 0, 1, 123400, 123499, tank.sensorHeight \div 2, tank.sensorHeight - 1,
     tank.sensorHeight, tank.sensorHeight + 1, tank.sensorHeight + 250000}

\* A tank created as the seed creates it, with its sensor at sensorHeight
ProbeTank(diameter, height, sensorHeight) ==
    [SeedTank("TANK-P", "Probe Tank", diameter, height)
        EXCEPT !.sensorHeight = sensorHeight]

\* calculateFuelLevel applied to a raw distance and a tank
ProbeFuelLevel ==
    /\ probe = NoProbe
    /\ \E diameter \in Diameters, height \in DeriveHeights, offset \in SensorOffsets :
          LET tank == ProbeTank(diameter, height, height + offset)
          IN  \E distanceToFuel \in RawDistances(tank) :
                 probe' = [fn |-> "calculateFuelLevel", tank |-> tank,
                           distanceToFuel |-> distanceToFuel,
                           reading |-> calculateFuelLevel(distanceToFuel, tank)]
    /\ UNCHANGED <<sse, subs, received, api, tanks, readings, published, app, procs, ops,
                   rowCall, reserved, faulted, restarted>>

\* Current fuel heights, also outside [0, tankHeight], and the draws of the
\* simulator.
CurrentHeights(tankHeight) ==
    {-100000, 0, 5000, tankHeight \div 2, tankHeight, tankHeight + 100000}
Scenarios == {"consumption", "refill", "stable", "emergency"}
SimulatorScenarioDraws == {0, 55, 65, 75, 85}
SimulatorDeltaDraws == {0, 40, 96}
SimulatorNoiseDraws == {0, 50, 98}

\* simulateSensorReading applied to a current height, and
\* generateSensorReading for each scenario on the same height and draws
ProbeSimulator ==
    /\ probe = NoProbe
    /\ \E tankHeight \in Heights, random \in SimulatorScenarioDraws,
          uDelta \in SimulatorDeltaDraws, uNoise \in SimulatorNoiseDraws :
          \E currentFuelHeight \in CurrentHeights(tankHeight) :
             probe' = [fn |-> "simulateSensorReading", tankHeight |-> tankHeight,
                       currentFuelHeight |-> currentFuelHeight,
                       uDelta |-> uDelta, uNoise |-> uNoise,
                       scenario |-> determineScenario("TANK-P", currentFuelHeight,
                                                      tankHeight, random),
                       distance |-> simulateSensorReading(
                                        "TANK-P", currentFuelHeight, tankHeight,
                                        random, uDelta, uNoise),
                       byScenario |-> [sc \in Scenarios |->
                                        generateSensorReading(
                                            sc, currentFuelHeight, tankHeight,
                                            uDelta, uNoise)]]
    /\ UNCHANGED <<sse, subs, received, api, tanks, readings, published, app, procs, ops,
                   rowCall, reserved, faulted, restarted>>

\* Current fuel heights at and beside the band limits of determineScenario,
\* the stored height of a full tank (C11: the tank height rounded to the
\* millimetre) and a height above the tank; draws at and beside the limits.
BandHeights(tankHeight) ==
    {0, tankHeight \div 10 - 1000, tankHeight \div 10,
     tankHeight \div 4 - 1000, tankHeight \div 4, tankHeight \div 2,
     (3 * tankHeight) \div 4, (3 * tankHeight) \div 4 + 1000,
     MathRound(tankHeight, 1000) * 1000, tankHeight + 100000}
BandDraws == {0, 49, 50, 59, 60, 69, 70, 79, 80, 99}
HeightDraws == {0, 40, 50, 99}

\* determineScenario applied to a current height and a draw
ProbeScenario ==
    /\ probe = NoProbe
    /\ \E tankHeight \in DeriveHeights, random \in BandDraws :
          \E currentFuelHeight \in BandHeights(tankHeight) :
             probe' = [fn |-> "determineScenario", tankHeight |-> tankHeight,
                       currentFuelHeight |-> currentFuelHeight, random |-> random,
                       scenario |-> determineScenario("TANK-P", currentFuelHeight,
                                                      tankHeight, random)]
    /\ UNCHANGED <<sse, subs, received, api, tanks, readings, published, app, procs, ops,
                   rowCall, reserved, faulted, restarted>>

\* The switch of generateSensorReading applied, for each scenario, to a
\* current height and a draw
ProbeNewFuelHeight ==
    /\ probe = NoProbe
    /\ \E tankHeight \in DeriveHeights, uDelta \in HeightDraws :
          \E currentFuelHeight \in BandHeights(tankHeight) :
             probe' = [fn |-> "generateSensorReading", tankHeight |-> tankHeight,
                       currentFuelHeight |-> currentFuelHeight, uDelta |-> uDelta,
                       newFuelHeight |-> [sc \in Scenarios |->
                                            newFuelHeight(sc, currentFuelHeight,
                                                          tankHeight, uDelta)]]
    /\ UNCHANGED <<sse, subs, received, api, tanks, readings, published, app, procs, ops,
                   rowCall, reserved, faulted, restarted>>

\* Stored fuel heights of a tank (millimetres): empty, nearly empty, the band
\* limits, nearly full and full.
StoredHeights(tank) ==
    {0, 5, 100, MathRound(tank.height \div 2, 1000),
     MathRound((3 * tank.height) \div 4, 1000),
     MathRound(tank.height, 1000) - 60, MathRound(tank.height, 1000)}
TickScenarioDraws == {0, 50, 60, 70, 80, 99}
TickDeltaDraws == {0, 40, 99}
TickNoiseDraws == {0, 50, 99}

\* The reading simulateAndProcessReading derives for a tank whose latest
\* stored reading has the given fuel height
ProbeTick ==
    /\ probe = NoProbe
    /\ \E height \in DeriveHeights, offset \in SensorOffsets :
          LET tank == ProbeTank(10, height, height + offset)
          IN  \E latestFuelHeight \in StoredHeights(tank), random \in TickScenarioDraws,
                 uDelta \in TickDeltaDraws, uNoise \in TickNoiseDraws :
                 LET currentFuelHeight == latestFuelHeight * 1000
                     simulatedDistance ==
                         simulateSensorReading(tank.id, currentFuelHeight, tank.height,
                                               random, uDelta, uNoise)
                 IN  probe' = [fn |-> "simulateAndProcessReading", tank |-> tank,
                               latestFuelHeight |-> latestFuelHeight,
                               scenario |-> determineScenario(tank.id, currentFuelHeight,
                                                              tank.height, random),
                               uDelta |-> uDelta, uNoise |-> uNoise,
                               readingData |-> calculateFuelLevel(simulatedDistance, tank)]
    /\ UNCHANGED <<sse, subs, received, api, tanks, readings, published, app, procs, ops,
                   rowCall, reserved, faulted, restarted>>

PureNext ==
    \/ ProbeFuelStatus
    \/ ProbeInitialReading
    \/ ProbeFuelLevel
    \/ ProbeSimulator
    \/ ProbeScenario
    \/ ProbeNewFuelHeight
    \/ ProbeTick

SpecPure == Init /\ [][PureNext]_vars

(***************************************************************************)
(* The event distributor: fuelLevelUpdates, an rxjs Subject.  next(event)  *)
(* hands the event, synchronously, to the observers subscribed at that     *)
(* moment; the Subject keeps no event.  A subscriber is an SSE connection  *)
(* of GET /fuel-tank/events; closing it unsubscribes.                      *)
(***************************************************************************)

\* Events the pipeline may publish in one run of the distributor
MaxEvents == 3

EventSamples ==
    {emitFuelLevelUpdate(SeedTanks[i], SeedReading(SeedTanks[i], 1), <<>>)
        : i \in DOMAIN SeedTanks}

\* Faulty variant: a new subscriber is sent the events published so far.
SubscribeReplay(s) ==
    /\ subs[s].state = "none"
    /\ subs' = [subs EXCEPT ![s] = [state |-> "open", from |-> Len(published), to |-> 0]]
    /\ received' = [received EXCEPT ![s] = [k \in DOMAIN published |-> k]]
    /\ UNCHANGED <<sse, probe, api, tanks, readings, published, app, procs, ops, rowCall,
                   reserved, faulted, restarted>>

\* streamFuelLevels: getFuelLevelUpdates().pipe(map(...)) is subscribed
Subscribe(s) ==
    /\ subs[s].state = "none"
    /\ subs' = [subs EXCEPT ![s] = [state |-> "open", from |-> Len(published), to |-> 0]]
    /\ UNCHANGED <<sse, probe, received, api, tanks, readings, published, app, procs, ops,
                   rowCall, reserved, faulted, restarted>>

\* Faulty variant: closing one subscription completes the Subject.
UnsubscribeCompletes(s) ==
    /\ subs[s].state = "open"
    /\ subs' = [o \in Subscribers |->
                  IF subs[o].state = "open"
                  THEN [subs[o] EXCEPT !.state = "closed", !.to = Len(published)]
                  ELSE subs[o]]
    /\ UNCHANGED <<sse, probe, received, api, tanks, readings, published, app, procs, ops,
                   rowCall, reserved, faulted, restarted>>

\* The client closes the connection: the subscription is closed
Unsubscribe(s) ==
    /\ subs[s].state = "open"
    /\ subs' = [subs EXCEPT ![s].state = "closed", ![s].to = Len(published)]
    /\ UNCHANGED <<sse, probe, received, api, tanks, readings, published, app, procs, ops,
                   rowCall, reserved, faulted, restarted>>

\* this.fuelLevelUpdates.next(event)
Publish ==
    /\ Len(published) < MaxEvents
    /\ \E event \in EventSamples :
          published' = Append(published, event)
    /\ received' = [s \in Subscribers |->
                      IF subs[s].state = "open"
                      THEN Append(received[s], Len(published) + 1)
                      ELSE received[s]]
    /\ UNCHANGED <<sse, probe, subs, api, tanks, readings, app, procs, ops, rowCall,
                   reserved, faulted, restarted>>

EventsNext ==
    \/ Publish
    \/ \E s \in Subscribers : Subscribe(s)
    \/ \E s \in Subscribers : Unsubscribe(s)

SpecEvents == Init /\ [][EventsNext]_vars

(***************************************************************************)
(* The read endpoints of FuelTankController, beside manual triggers.  Tank *)
(* rows are created outside the service, also while it runs, so a running  *)
(* service can hold a tank that has no reading yet.                        *)
(***************************************************************************)

ApiIds == {"TANK-001", "TANK-S", "NON-EXISTENT"}

ApiInit ==
    /\ tanks = SeedTanks
    /\ \E seeded \in SUBSET {SeedTanks[i].id : i \in DOMAIN SeedTanks} :
          /\ readings = [id \in {SeedTanks[i].id : i \in DOMAIN SeedTanks} |->
                            IF id \in seeded
                            THEN <<SeedReading(
                                     CHOOSE t \in SeqToSet(SeedTanks) : t.id = id, 1)>>
                            ELSE <<>>]
          /\ rowCall = [id \in {SeedTanks[i].id : i \in DOMAIN SeedTanks} |->
                            IF id \in seeded THEN << <<>> >> ELSE <<>>]
    /\ published = <<>>
    /\ app = "running"
    /\ procs = [p \in Procs |-> Idle]
    /\ ops = [p \in Procs |-> <<>>]
    /\ reserved = 0
    /\ faulted = FALSE
    /\ restarted = FALSE
    /\ probe = NoProbe
    /\ subs = [s \in Subscribers |-> NoSubscription]
    /\ received = [s \in Subscribers |-> <<>>]
    /\ api = NoProbe
    /\ sse = NoSse

\* GET tanks/:id
ApiGetTankById(id) ==
    /\ app = "running"
    /\ api' = IF getTankById(id) = {}
              THEN [fn |-> "getTankById", arg |-> id, status |-> "error",
                    error |-> <<"Tank", id, "not found">>, body |-> NoReading]
              ELSE [fn |-> "getTankById", arg |-> id, status |-> "ok",
                    error |-> <<>>, body |-> TankOf(id)]
    /\ UNCHANGED <<sse, probe, subs, received, tanks, readings, published, app, procs, ops,
                   rowCall, reserved, faulted, restarted>>

\* Faulty variant: a missing reading is answered with null.
ApiGetLatestReadingNull(tankId) ==
    /\ app = "running"
    /\ \E reading \in getLatestReadingForTank(tankId) :
          api' = [fn |-> "getLatestReading", arg |-> tankId, status |-> "ok",
                  error |-> <<>>, body |-> reading]
    /\ UNCHANGED <<sse, probe, subs, received, tanks, readings, published, app, procs, ops,
                   rowCall, reserved, faulted, restarted>>

\* GET tanks/:id/latest
ApiGetLatestReading(tankId) ==
    /\ app = "running"
    /\ \E reading \in getLatestReadingForTank(tankId) :
          api' = IF reading.id = <<>>
                 THEN [fn |-> "getLatestReading", arg |-> tankId, status |-> "error",
                       error |-> <<"No readings found for tank", tankId>>,
                       body |-> NoReading]
                 ELSE [fn |-> "getLatestReading", arg |-> tankId, status |-> "ok",
                       error |-> <<>>, body |-> reading]
    /\ UNCHANGED <<sse, probe, subs, received, tanks, readings, published, app, procs, ops,
                   rowCall, reserved, faulted, restarted>>

ApiNext ==
    \/ \E id \in ApiIds : ApiGetTankById(id)
    \/ \E tankId \in ApiIds : ApiGetLatestReading(tankId)
    \/ \E p \in Manuals, tankId \in RequestIds : ManualStart(p, tankId)
    \/ \E p \in Manuals : ManualLookup(p)
    \/ \E p \in Manuals : TickRead(p)
    \/ \E p \in Manuals : TickSave(p)
    \/ \E p \in Manuals : TickEmit(p)
    \/ \E p \in Manuals : ManualResult(p)

SpecApi == ApiInit /\ [][ApiNext]_vars

(***************************************************************************)
(* GET latest: DatabaseService.getAllLatestReadings, one step for each     *)
(* awaited query, beside manual triggers for the tanks.  The response      *)
(* keeps, as history, the number of rows each tank had when the call read  *)
(* the tank list, when it read that tank, and when it returned.            *)
(***************************************************************************)

RowCounts == [tankId \in DOMAIN readings |-> Len(readings[tankId])]

\* const tanks = await this.getAllTanks(); const latestReadings = []
LatestList ==
    /\ app = "running"
    /\ IF api.fn = "getAllLatestReadings" THEN api.status # "running" ELSE TRUE
    /\ api' = [fn |-> "getAllLatestReadings",
               status |-> IF Len(getAllTanks) = 0 THEN "ok" ELSE "running",
               tanks |-> getAllTanks, i |-> 1, body |-> <<>>,
               atList |-> RowCounts, atRead |-> <<>>, atReturn |-> RowCounts]
    /\ UNCHANGED <<sse, probe, subs, received, tanks, readings, published, app, procs, ops,
                   rowCall, reserved, faulted, restarted>>

\* const latest = await this.getLatestReadingForTank(tank.id);
\* if (latest) latestReadings.push(latest); after the last tank: return
LatestRead ==
    /\ api.fn = "getAllLatestReadings"
    /\ api.status = "running"
    /\ \E latest \in getLatestReadingForTank(api.tanks[api.i].id) :
          api' = [api EXCEPT
                    !.body = IF latest.id # <<>> THEN Append(@, latest) ELSE @,
                    !.atRead = Append(@, Len(readings[api.tanks[api.i].id])),
                    !.i = @ + 1,
                    !.status = IF api.i = Len(api.tanks) THEN "ok" ELSE "running",
                    !.atReturn = RowCounts]
    /\ UNCHANGED <<sse, probe, subs, received, tanks, readings, published, app, procs, ops,
                   rowCall, reserved, faulted, restarted>>

LatestNext ==
    \/ LatestList
    \/ LatestRead
    \/ \E p \in Manuals, tankId \in TankIds : ManualStart(p, tankId)
    \/ \E p \in Manuals : ManualLookup(p)
    \/ \E p \in Manuals : TickRead(p)
    \/ \E p \in Manuals : TickSave(p)
    \/ \E p \in Manuals : TickEmit(p)
    \/ \E p \in Manuals : ManualResult(p)

SpecLatest == ApiInit /\ [][LatestNext]_vars

(***************************************************************************)
(* One automated cycle on a running service, beside manual triggers and    *)
(* repository failures.  An awaited repository call settles, and the       *)
(* continuation of performAutomatedReadings then runs: the steps of the    *)
(* cycle are weakly fair.  At its save a tick is always able to take       *)
(* TickSave and every TickSave step leaves the save, so weak fairness of   *)
(* TickSave("cron") is the same as leaving the save infinitely often.      *)
(***************************************************************************)

CycleSteps ==
    \/ CycleList
    \/ TickRead("cron")
    \/ TickSave("cron")
    \/ TickEmit("cron")

CycleNext ==
    \/ CronStart
    \/ CycleSteps
    \/ \E p \in Manuals, tankId \in RequestIds : ManualStart(p, tankId)
    \/ \E p \in Manuals : ManualLookup(p)
    \/ \E p \in Manuals : TickRead(p)
    \/ \E p \in Manuals : TickSave(p)
    \/ \E p \in Manuals : TickEmit(p)
    \/ \E p \in Manuals : ManualResult(p)
    \/ \E p \in Workers : DbFail(p)

CycleFairness ==
    /\ WF_vars(CycleList)
    /\ WF_vars(TickRead("cron"))
    /\ []<>(procs["cron"].pc # "tick_save")
    /\ WF_vars(TickEmit("cron"))

SpecCycle == ApiInit /\ [][CycleNext]_vars /\ CycleFairness

(***************************************************************************)
(* Reading the history                                                     *)
(***************************************************************************)
(* The upstream SSE connection of the SSE-consumer variant of              *)
(* FuelTankService.  A call of connectToSSE runs up to its await; the      *)
(* response, the rejection and the stream's 'end' and 'error' events are   *)
(* steps of their own.  An aborted request is rejected with an error whose *)
(* name depends on the HTTP client ('AbortError' or another name); an      *)
(* aborted stream emits 'error' or 'end', or closes without either.  Time  *)
(* passes in halves of reconnectInterval and matters to the timer only.    *)
(***************************************************************************)

Live(s) == {c \in Connections : s.conns[c] \in {"inflight", "open"}}
Underway(s) == {c \in Connections : s.conns[c] # "free"}

\* clearTimeout(this.reconnectTimer): a timer that is still pending is
\* cancelled; on a timer that has fired it does nothing
clearTimeout(s) ==
    [s EXCEPT !.timers = IF s.reconnectTimer.state = "pending" THEN @ - 1 ELSE @]

\* this.reconnectTimer = setTimeout(..., this.reconnectInterval)
setTimeout(s) ==
    [s EXCEPT !.timers = @ + 1,
              !.reconnectTimer = [state |-> "pending", remaining |-> reconnectInterval]]

\* Faulty variant: the new timer is armed without cancelling the previous one.
scheduleReconnectNoClear(s) == setTimeout(s)

\* Faulty variant: a pending timer is kept as it is.
scheduleReconnectKeepsPending(s) ==
    IF s.reconnectTimer.state = "pending" THEN s
    ELSE setTimeout(s)

\* if (this.reconnectTimer) clearTimeout(...); this.reconnectTimer = setTimeout(...)
scheduleReconnect(s) ==
    setTimeout(IF s.reconnectTimer.state # "undefined" THEN clearTimeout(s) ELSE s)

\* connectToSSE up to the await of the request
connectToSSE(s) ==
    IF s.connectionStatus
    THEN [s EXCEPT !.event = "already_connected", !.reports = 0]
    ELSE LET c == CHOOSE f \in Connections :
                     /\ s.conns[f] = "free"
                     /\ \A g \in Connections : s.conns[g] = "free" => f <= g
         IN  [s EXCEPT !.abortController = c, !.conns[c] = "inflight",
                       !.event = "connect", !.reports = 0]

\* handleSSEConnection(response): the handlers of the stream are installed
handleSSEConnection(s, c) ==
    [s EXCEPT !.connectionStatus = TRUE, !.conns[c] = "open",
              !.event = "connected", !.reports = 0]

\* stream.on('end') and stream.on('error')
onStreamEvent(s, c, event) ==
    scheduleReconnect([s EXCEPT !.connectionStatus = FALSE, !.conns[c] = "free",
                                !.event = event])

\* The handlers run for the events a terminating stream reports.  The
\* stream emits them from process.nextTick callbacks, which run before any
\* timer or I/O callback: nothing else runs between them.
onStreamEvents(s, c, events) ==
    LET first == onStreamEvent(s, c, events[1])
    IN  [(IF Len(events) = 1 THEN first ELSE onStreamEvent(first, c, events[2]))
            EXCEPT !.reports = Len(events)]

\* catch (error) { this.handleConnectionError(error) }
handleConnectionError(s, c, name) ==
    LET t == [s EXCEPT !.connectionStatus = FALSE, !.conns[c] = "free", !.reports = 0]
    IN  IF name = "AbortError"
        THEN [t EXCEPT !.event = "connect_aborted"]
        ELSE scheduleReconnect([t EXCEPT !.event = "connect_error"])

\* disconnect()
disconnect(s) ==
    LET c == s.abortController
        aborted == IF c = 0 THEN s.conns
                   ELSE [s.conns EXCEPT ![c] =
                            CASE @ = "inflight" -> "inflight_aborted"
                              [] @ = "open" -> "open_aborted"
                              [] OTHER -> @]
        cleared == IF s.reconnectTimer.state # "undefined" THEN clearTimeout(s) ELSE s
    IN  [cleared EXCEPT !.reconnectTimer = NoTimer, !.abortController = 0,
                        !.conns = aborted, !.connectionStatus = FALSE,
                        !.disconnected = TRUE, !.event = "disconnect",
                        !.reports = 0]

SseFrame ==
    UNCHANGED <<probe, subs, received, api, tanks, readings, published, app, procs,
                ops, rowCall, reserved, faulted, restarted>>

\* connectToSSE called by onModuleInit or by another caller
ConnectToSSE ==
    /\ ~sse.connectionStatus =>
          Cardinality(Underway(sse))
             + (IF sse.reconnectTimer.state = "pending" THEN 1 ELSE 0) < MaxConnections
    /\ sse' = [connectToSSE(sse) EXCEPT !.disconnected = FALSE]
    /\ SseFrame

\* The request is answered with the stream
RequestSucceeds(c) ==
    /\ sse.conns[c] = "inflight"
    /\ sse' = handleSSEConnection(sse, c)
    /\ SseFrame

\* The request fails: connection refused, an HTTP status, another error
RequestFails(c) ==
    /\ sse.conns[c] = "inflight"
    /\ sse' = handleConnectionError(sse, c, "Error")
    /\ SseFrame

\* The aborted request is rejected
RequestAborted(c) ==
    /\ sse.conns[c] = "inflight_aborted"
    /\ \E name \in {"AbortError", "CanceledError"} :
          sse' = handleConnectionError(sse, c, name)
    /\ SseFrame

\* What a terminating stream reports: 'end', 'error', or both
StreamReports ==
    {<<"stream_end">>, <<"stream_error">>,
     <<"stream_error", "stream_end">>, <<"stream_end", "stream_error">>}

\* The stream emits 'end', 'error' or both
StreamEvent(c) ==
    /\ sse.conns[c] \in {"open", "open_aborted"}
    /\ \E events \in StreamReports :
          sse' = onStreamEvents(sse, c, events)
    /\ SseFrame

\* The aborted stream is closed without 'end' or 'error'
StreamCloses(c) ==
    /\ sse.conns[c] = "open_aborted"
    /\ sse' = [sse EXCEPT !.conns[c] = "free", !.event = "close", !.reports = 0]
    /\ SseFrame

Disconnect ==
    /\ sse' = disconnect(sse)
    /\ SseFrame

\* Half of reconnectInterval passes
Elapse ==
    /\ sse.reconnectTimer.state = "pending"
    /\ sse.reconnectTimer.remaining > 0
    /\ sse' = [sse EXCEPT !.reconnectTimer.remaining = @ - reconnectInterval \div 2]
    /\ SseFrame

\* setTimeout(() => { this.connectToSSE() }, this.reconnectInterval) is due
TimerFire ==
    /\ sse.reconnectTimer.state = "pending"
    /\ sse.reconnectTimer.remaining = 0
    /\ sse.connectionStatus \/ Underway(sse) # Connections
    /\ sse' = [connectToSSE([sse EXCEPT !.reconnectTimer.state = "fired",
                                        !.timers = @ - 1])
                  EXCEPT !.event = IF sse.connectionStatus
                                   THEN "timer_already_connected"
                                   ELSE "timer_connect"]
    /\ SseFrame

SseNext ==
    \/ ConnectToSSE
    \/ \E c \in Connections : RequestSucceeds(c)
    \/ \E c \in Connections : RequestFails(c)
    \/ \E c \in Connections : RequestAborted(c)
    \/ \E c \in Connections : StreamEvent(c)
    \/ \E c \in Connections : StreamCloses(c)
    \/ Disconnect
    \/ Elapse
    \/ TimerFire

\* The event loop runs a due timer, and time passes.
SseFairness == WF_vars(Elapse) /\ WF_vars(TimerFire)

SpecSse == Init /\ [][SseNext]_vars /\ SseFairness

(***************************************************************************)

\* Every call started so far, as <<activity, operation, call>>.
CallTags ==
    UNION {UNION {{<<p, o, c>> : c \in DOMAIN ops[p][o].calls} : o \in DOMAIN ops[p]}
           : p \in Procs}

OpOf(t) == ops[t[1]][t[2]]
Call(t) == ops[t[1]][t[2]].calls[t[3]]

\* The calls of simulateAndProcessReading
TickTags == {t \in CallTags : OpOf(t).kind \in {"cycle", "manual"}}

Row(id) == readings[id[1]][id[2]]
Stored(id) == id # <<>> /\ id[1] \in DOMAIN readings /\ id[2] \in DOMAIN readings[id[1]]

\* The rows a call, or an operation, has inserted; the events it has published.
RowIdsBy(t) ==
    UNION {{<<id, n>> : n \in {k \in DOMAIN rowCall[id] : rowCall[id][k] = t}}
           : id \in DOMAIN rowCall}
EventsBy(t) == {k \in DOMAIN published : published[k].call = t}
RowIdsByOp(p, o) ==
    UNION {{<<id, n>> : n \in {k \in DOMAIN rowCall[id] :
                                  /\ rowCall[id][k] # <<>>
                                  /\ rowCall[id][k][1] = p
                                  /\ rowCall[id][k][2] = o}}
           : id \in DOMAIN rowCall}
EventsByOp(p, o) ==
    {k \in DOMAIN published : published[k].call[1] = p /\ published[k].call[2] = o}

(***************************************************************************)
(* Properties                                                              *)
(***************************************************************************)

\* C1: persist-before-publish.  In every reachable state every published
\* fuel_level_update event, of a tick or of the initialisation, carries a
\* reading that is a row of the repository, inserted by the call that
\* published it, with the values the event shows; and a call whose
\* addFuelReading failed has published no event.
C1_PersistBeforePublish ==
    /\ \A k \in DOMAIN published :
          LET e == published[k]
          IN  /\ Stored(e.readingId)
              /\ Row(e.readingId).id = e.readingId
              /\ rowCall[e.readingId[1]][e.readingId[2]] = e.call
              /\ e.data.tankId = Row(e.readingId).tankId
              /\ e.data.fuelLevelPercentage = Row(e.readingId).fuelLevelPercentage
              /\ e.data.fuelLevelLiters = Row(e.readingId).fuelLevelLiters
              /\ e.data.fuelHeight = Row(e.readingId).fuelHeight
              /\ e.data.distanceToFuel = Row(e.readingId).distanceToFuel
              /\ e.data.timestamp = Row(e.readingId).timestamp
    /\ \A t \in CallTags :
          Call(t).state = "save_failed" => EventsBy(t) = {} /\ RowIdsBy(t) = {}

\* C1 witness: a tick's save has failed, and events of a tick and of the
\* initialisation have been published.
C1_Witness ==
    /\ \E t \in TickTags : Call(t).state = "save_failed"
    /\ \E k \in DOMAIN published : OpOf(published[k].call).kind = "init"
    /\ \E k \in DOMAIN published : published[k].call \in TickTags

\* C2: every completed call of simulateAndProcessReading has inserted exactly
\* one row, for its own tank, and has published at most one event, whatever
\* the interleaving of the cycle and the manual triggers.
C2_OneRowPerTick ==
    \A t \in TickTags :
        Call(t).state = "done" =>
            /\ Cardinality(RowIdsBy(t)) = 1
            /\ \A id \in RowIdsBy(t) : id[1] = Call(t).tankId /\ Row(id).tankId = id[1]
            /\ Cardinality(EventsBy(t)) <= 1

\* C2 witness: a completed tick that published nothing has its row, and two
\* completed ticks of different activities for the same tank fetched the same
\* latest reading.
C2_Witness ==
    /\ \E t \in TickTags :
          Call(t).state = "done" /\ EventsBy(t) = {} /\ Cardinality(RowIdsBy(t)) = 1
    /\ \E t \in TickTags, u \in TickTags :
          /\ t[1] # u[1]
          /\ Call(t).tankId = Call(u).tankId
          /\ Call(t).state = "done" /\ Call(u).state = "done"
          /\ Call(t).latestId = Call(u).latestId

\* The row a completed tick has inserted
SavedBy(t) == Row(CHOOSE id \in RowIdsBy(t) : TRUE)

\* The difference, in hundredths of a percent, between the percentage a
\* completed tick persisted and the percentage of the reading it fetched.
PercentageStep(t) ==
    Abs(SavedBy(t).fuelLevelPercentage - Row(Call(t).latestId).fuelLevelPercentage)

\* C3: significant-change gate.  A completed tick has published an event if
\* and only if it fetched no prior reading or the percentage it persisted
\* differs from the fetched reading's by strictly more than 0.1; a difference
\* of exactly 0.1 publishes nothing.
C3_SignificanceGate ==
    \A t \in TickTags :
        Call(t).state = "done" =>
            (EventsBy(t) # {} <=>
                (Call(t).latestId = <<>> \/ PercentageStep(t) > 10))

\* C4: failure isolation in performAutomatedReadings.  A cycle in which the
\* tick of one tank failed does not fail itself, and once it is over every
\* tank of the list has been ticked.
C4_FailureIsolation ==
    \A o \in DOMAIN ops["cron"] :
        LET op == ops["cron"][o]
        IN  (\E c \in DOMAIN op.calls : op.calls[c].state \in {"read_failed", "save_failed"})
                => /\ op.state # "failed"
                   /\ op.state = "done" => Len(op.calls) = Len(tanks)

NotFound(tankId) == <<"Tank", tankId, "not found">>

\* C5: triggerManualReading for an id that is no tank, once getTankById has
\* answered, has failed with 'Tank <id> not found'; it never completes, starts
\* no tick, inserts no row and publishes no event.
C5_UnknownTank ==
    \A p \in Manuals : \A o \in DOMAIN ops[p] :
        ops[p][o].arg \notin TankIds =>
            /\ ops[p][o].state # "done"
            /\ (ops[p][o].state = "failed" /\ ops[p][o].error # <<"PersistenceFailure">>)
                  => ops[p][o].error = NotFound(ops[p][o].arg)
            /\ ops[p][o].calls = <<>>
            /\ RowIdsByOp(p, o) = {}
            /\ EventsByOp(p, o) = {}

\* C5 witness: a trigger for an unknown id has failed with the not-found
\* error while rows and events of other operations exist.
C5_Witness ==
    \E p \in Manuals : \E o \in DOMAIN ops[p] :
        /\ ops[p][o].arg \notin TankIds
        /\ ops[p][o].state = "failed"
        /\ ops[p][o].error = NotFound(ops[p][o].arg)
        /\ published # <<>>
        /\ \E t \in TickTags : Call(t).state = "done"

\* C6: a completed triggerManualReading for an existing tank has returned
\* the row its own tick inserted, also when another call saved a reading for
\* the tank between this call's save and its final lookup.
C6_ReturnsOwnReading ==
    \A p \in Manuals : \A o \in DOMAIN ops[p] :
        (ops[p][o].state = "done" /\ ops[p][o].arg \in TankIds)
            => ops[p][o].ret.id \in RowIdsBy(<<p, o, 1>>)

\* The rows a tank had when the o-th initializeAllTanks began: the seed's and
\* those of earlier initialisations (no tick runs before an initialisation).
RowsBeforeInit(tankId, o) ==
    {n \in DOMAIN rowCall[tankId] :
        \/ rowCall[tankId][n] = <<>>
        \/ (rowCall[tankId][n][1] = "boot" /\ rowCall[tankId][n][2] < o)}

\* C7: a completed initializeAllTanks has inserted exactly one row and
\* published exactly one event, carrying that row, for every tank that had no
\* reading, and nothing for a tank that had one; a second initialisation
\* after a completed one inserts and publishes nothing.
C7_InitializeOnce ==
    \A o \in DOMAIN ops["boot"] :
        ops["boot"][o].state = "done" =>
            /\ \A tankId \in TankIds :
                  LET rows == {id \in RowIdsByOp("boot", o) : id[1] = tankId}
                      events == {k \in EventsByOp("boot", o) :
                                    published[k].data.tankId = tankId}
                  IN  IF RowsBeforeInit(tankId, o) = {}
                      THEN /\ Cardinality(rows) = 1
                           /\ Cardinality(events) = 1
                           /\ \A k \in events : published[k].readingId \in rows
                      ELSE rows = {} /\ events = {}
            /\ (\E first \in 1..(o - 1) : ops["boot"][first].state = "done")
                  => RowIdsByOp("boot", o) = {} /\ EventsByOp("boot", o) = {}

\* C7 witness: a first initialisation gave the one tank without a reading
\* its row and event and left the seeded tank alone, and a second one has
\* completed.
C7_Witness ==
    /\ Len(ops["boot"]) = 2
    /\ ops["boot"][1].state = "done"
    /\ ops["boot"][2].state = "done"
    /\ Len(ops["boot"][1].calls) = 1
    /\ \E tankId \in TankIds : RowsBeforeInit(tankId, 1) # {}
    /\ Cardinality(RowIdsByOp("boot", 1)) = 1

\* The least capacity, in litres, from which rounding the capacity to whole
\* litres (an error of at most half a litre) moves a percentage between 20
\* and 80 by less than 0.005.
LargeCapacity == 80 * 100

C9_StatusThresholds ==
    probe.fn = "getFuelStatus" =>
        \A x \in {<<probe.p1, probe.s1>>, <<probe.p2, probe.s2>>} :
            /\ x[2] \in {"full", "critical", "low", "normal"}
            /\ x[2] = "full" <=> x[1] >= 9500
            /\ x[2] = "critical" <=> x[1] < 1000
            /\ x[2] = "low" <=> (1000 <= x[1] /\ x[1] < 2500)
            /\ x[2] = "normal" <=> (2500 <= x[1] /\ x[1] < 9500)

\* C9 witness: a percentage below 0 classified 'critical' and one above 100
\* classified 'full'.
C9_Witness ==
    /\ probe.fn = "getFuelStatus"
    /\ probe.p1 < 0 /\ probe.s1 = "critical"
    /\ probe.p2 > 10000 /\ probe.s2 = "full"

Rank(status) ==
    CASE status = "critical" -> 1
      [] status = "low" -> 2
      [] status = "normal" -> 3
      [] status = "full" -> 4

\* C10: getFuelStatus is monotonic: for p1 < p2 the status of p1 does not
\* rank above the status of p2 in critical < low < normal < full.
C10_StatusMonotonic ==
    (probe.fn = "getFuelStatus" /\ probe.p1 < probe.p2) =>
        Rank(probe.s1) <= Rank(probe.s2)

\* C10 witness: two percentages on either side of a threshold, classified
\* 'critical' and 'low'.
C10_Witness ==
    /\ probe.fn = "getFuelStatus"
    /\ probe.p1 < probe.p2
    /\ probe.s1 = "critical"
    /\ probe.s2 = "low"

CapacityRoundedUp(tank) ==
    LET exact == calculateCylindricalVolume(tank.height, tank.diameter)
    IN  \/ tank.capacity * 10000 > exact[1]
        \/ (tank.capacity * 10000 = exact[1] /\ exact[2] = 0)

FullVolume(tank) ==
    RoundQR(MulDivMod(PiNum * tank.diameter * tank.diameter, tank.height, PiDen * 40),
            PiDen * 40, 100)

\* When the sensor is at the tank height, distance 0 gives the full volume
\* and a percentage within 50 / capacity (+ 0.005) of 100.
FullAtDistanceZero ==
    probe.tank.sensorHeight = probe.tank.height =>
        /\ probe.reading.fuelLevelLiters = FullVolume(probe.tank)
        /\ 2 * Abs(probe.reading.fuelLevelPercentage - 10000) * probe.tank.capacity
              <= 10000 + probe.tank.capacity

\* C13 as stated: a raw distance of 0 gives the stored
\* fuelHeight = min(sensorHeight, height) and, with sensorHeight = height,
\* the full volume and 100 % up to the capacity rounding.
C13_DistanceZero ==
    (probe.fn = "calculateFuelLevel" /\ probe.distanceToFuel = 0) =>
        /\ probe.reading.fuelHeight * 1000
              = Min(probe.tank.sensorHeight, probe.tank.height)
        /\ FullAtDistanceZero

\* C13 amended: the stored fuelHeight is min(sensorHeight, height) rounded
\* to 3 decimals.
C13_DistanceZeroRounded ==
    (probe.fn = "calculateFuelLevel" /\ probe.distanceToFuel = 0) =>
        /\ probe.reading.fuelHeight
              = MathRound(Min(probe.tank.sensorHeight, probe.tank.height), 1000)
        /\ FullAtDistanceZero

\* C13 witness: distance 0 on a tank with the sensor at its height, whose
\* capacity rounding leaves the percentage off 100.
C13_Witness ==
    /\ probe.fn = "calculateFuelLevel"
    /\ probe.distanceToFuel = 0
    /\ probe.tank.sensorHeight = probe.tank.height
    /\ probe.reading.fuelLevelPercentage # 10000
    /\ probe.reading.fuelLevelLiters = FullVolume(probe.tank)

\* C14: a raw distance of at least the sensor height gives fuelHeight 0,
\* fuelLevelLiters 0 and fuelLevelPercentage 0; height 0 has volume 0.
C14_DistanceBeyondSensor ==
    (probe.fn = "calculateFuelLevel"
        /\ probe.distanceToFuel >= probe.tank.sensorHeight) =>
        /\ probe.reading.fuelHeight = 0
        /\ probe.reading.fuelLevelLiters = 0
        /\ probe.reading.fuelLevelPercentage = 0
        /\ calculateCylindricalVolume(0, probe.tank.diameter) = <<0, 0>>

\* C14 witness: a distance beyond the sensor height, and one equal to it,
\* stored as an empty tank.
C14_Witness ==
    /\ probe.fn = "calculateFuelLevel"
    /\ probe.distanceToFuel > probe.tank.sensorHeight + 1
    /\ probe.reading.fuelHeight = 0
    /\ probe.reading.fuelLevelLiters = 0
    /\ probe.reading.fuelLevelPercentage = 0

\* C15: simulateSensorReading returns a distance d with
\* 0 <= d <= tankHeight * 100 cm, for every scenario, every draw and every
\* current fuel height, also outside [0, tankHeight].
C15_DistanceClamped ==
    probe.fn = "simulateSensorReading" =>
        /\ probe.distance >= 0
        /\ probe.distance <= probe.tankHeight
        /\ probe.distance = probe.byScenario[probe.scenario]
        /\ \A sc \in Scenarios :
              probe.byScenario[sc] >= 0 /\ probe.byScenario[sc] <= probe.tankHeight

\* C15 witness: a current height above the tank with negative noise is
\* returned as distance 0, and a refill from below 0 stays within the tank.
C15_Witness ==
    /\ probe.fn = "simulateSensorReading"
    /\ \/ /\ probe.currentFuelHeight > probe.tankHeight
          /\ probe.uNoise < 50
          /\ probe.distance = 0
       \/ /\ probe.currentFuelHeight < 0
          /\ probe.uNoise > 50
          /\ probe.distance = probe.tankHeight

\* The positions a + 1 .. b of published, in order
Positions(a, b) == [i \in 1..(b - a) |-> a + i]

\* The last position of published a subscription covers
CoveredTo(s) ==
    CASE subs[s].state = "open" -> Len(published)
      [] subs[s].state = "closed" -> subs[s].to
      [] OTHER -> subs[s].from

\* C16: every subscriber has received, once each and in publication order,
\* exactly the events published while it was subscribed: none published
\* before it subscribed (no replay) or after it closed; an event published
\* while nobody is subscribed is received by nobody.
C16_LiveDelivery ==
    \A s \in Subscribers : received[s] = Positions(subs[s].from, CoveredTo(s))

\* C16 witness: the first event was published with no subscriber and nobody
\* has it; one subscriber has the second and third, a later one the third.
C16_Witness ==
    /\ Len(published) = 3
    /\ \E s \in Subscribers, o \in Subscribers :
          /\ received[s] = <<2, 3>>
          /\ received[o] = <<3>>
          /\ subs[s].from = 1
          /\ subs[o].from = 2

\* C17: subscriber independence.  In every step: a closed subscription
\* receives nothing more; a subscriber that subscribes or closes changes
\* neither what was published nor the subscription or the received events
\* of any other subscriber; a publication reaches every open subscription;
\* and publishing stays possible whatever the subscriptions are.
C17_SubscriberIndependence ==
    [][/\ \A s \in Subscribers :
             subs[s].state = "closed" =>
                 received'[s] = received[s] /\ subs'[s] = subs[s]
       /\ \A s \in Subscribers :
             subs'[s] # subs[s] =>
                 /\ published' = published
                 /\ \A o \in Subscribers \ {s} :
                       subs'[o] = subs[o] /\ received'[o] = received[o]
       /\ Len(published') > Len(published) =>
             \A s \in Subscribers :
                 subs[s].state = "open" =>
                     received'[s] = Append(received[s], Len(published'))
       /\ Len(published) < MaxEvents => ENABLED Publish]_vars

\* C17 witness: one subscriber has closed after the first event and has
\* only that one; the other has also received the later events.
C17_Witness ==
    \E s \in Subscribers, o \in Subscribers :
        /\ subs[s].state = "closed"
        /\ subs[s].to = 1
        /\ received[s] = <<1>>
        /\ subs[o].state = "open"
        /\ received[o] = <<1, 2, 3>>

C19_ReadEndpoints ==
    [][api' # api =>
          /\ tanks' = tanks /\ readings' = readings /\ published' = published
          /\ api'.fn = "getTankById" =>
                IF api'.arg \in TankIds
                THEN api'.status = "ok" /\ api'.body \in getTankById(api'.arg)
                ELSE /\ api'.status = "error"
                     /\ api'.error = <<"Tank", api'.arg, "not found">>
          /\ api'.fn = "getLatestReading" =>
                IF RowsOf(api'.arg) # {}
                THEN api'.status = "ok" /\ api'.body \in getLatestReadingForTank(api'.arg)
                ELSE /\ api'.status = "error"
                     /\ api'.error = <<"No readings found for tank", api'.arg>>
          /\ api'.status = "ok" => api'.body # NoReading]_vars

\* C19 witness: the latest reading of an existing tank without a reading
\* was requested and the request failed.
C19_Witness ==
    /\ api.fn = "getLatestReading"
    /\ api.arg \in TankIds
    /\ RowsOf(api.arg) = {}
    /\ api.status = "error"
    /\ api.error = <<"No readings found for tank", api.arg>>

\* C20: no operation of the pipeline creates, changes or deletes a tank: in
\* every reachable state the tank table is the one the run started with.
C20_TanksUnchanged ==
    tanks = SeedTanks

\* C20 witness: an initialisation, an automated cycle and a manual trigger
\* have completed, and a tick has failed.
C20_Witness ==
    /\ \E o \in DOMAIN ops["boot"] :
          ops["boot"][o].state = "done" /\ ops["boot"][o].calls # <<>>
    /\ \E o \in DOMAIN ops["cron"] : ops["cron"][o].state = "done"
    /\ \E p \in Manuals : \E o \in DOMAIN ops[p] :
          ops[p][o].state = "done" /\ ops[p][o].arg \in TankIds
    /\ tanks = SeedTanks

\* C21: readings are append-only: in every step each tank's rows of before
\* are still there, unchanged and in place, so the number of readings of a
\* tank never decreases.
C21_AppendOnly ==
    [][\A tankId \in DOMAIN readings :
          /\ tankId \in DOMAIN readings'
          /\ Len(readings'[tankId]) >= Len(readings[tankId])
          /\ \A i \in 1..Len(readings[tankId]) :
                readings'[tankId][i] = readings[tankId][i]]_vars

\* C21 witness: a tank holds a row of the initialisation or the seed, and
\* rows added after it by a cycle and by a manual trigger.
C21_Witness ==
    \E tankId \in DOMAIN readings :
        /\ Len(readings[tankId]) >= 3
        /\ \E i \in 2..Len(readings[tankId]) :
              rowCall[tankId][i] # <<>> /\ rowCall[tankId][i][1] = "cron"
        /\ \E i \in 2..Len(readings[tankId]) :
              rowCall[tankId][i] # <<>> /\ rowCall[tankId][i][1] \in Manuals

\* C22: scenario selection by p = currentHeight / tankHeight * 100 and one
\* draw r (in hundredths): p < 10 gives refill if r < 0.7, else emergency;
\* 10 <= p < 25 gives refill if r < 0.6, else consumption; p > 75 gives
\* consumption if r < 0.8, else stable; 25 <= p <= 75 gives consumption if
\* r < 0.5, stable if r < 0.8, else refill.  Emergency is selected only when
\* p < 10 and refill never when p > 75.
C22_ScenarioBands ==
    probe.fn = "determineScenario" =>
        LET h == probe.currentFuelHeight * 100
            H == probe.tankHeight
            r == probe.random
            sc == probe.scenario
        IN  /\ h < 10 * H =>
                  sc = IF r < 70 THEN "refill" ELSE "emergency"
            /\ (10 * H <= h /\ h < 25 * H) =>
                  sc = IF r < 60 THEN "refill" ELSE "consumption"
            /\ h > 75 * H =>
                  sc = IF r < 80 THEN "consumption" ELSE "stable"
            /\ (25 * H <= h /\ h <= 75 * H) =>
                  sc = IF r < 50 THEN "consumption"
                       ELSE IF r < 80 THEN "stable" ELSE "refill"
            /\ sc = "emergency" => h < 10 * H
            /\ h > 75 * H => sc # "refill"

\* C22 witness: at exactly 10 % a draw of 0.7 gives consumption, and at
\* exactly 75 % a draw of 0.8 gives refill (limits belong to the inner bands).
C22_Witness ==
    /\ probe.fn = "determineScenario"
    /\ \/ /\ probe.currentFuelHeight * 100 = 10 * probe.tankHeight
          /\ probe.random = 70
          /\ probe.scenario = "consumption"
       \/ /\ probe.currentFuelHeight * 100 = 75 * probe.tankHeight
          /\ probe.random = 80
          /\ probe.scenario = "refill"

\* The height-delta rules of the four scenarios for one probe (micrometres)
HeightDeltaRules ==
    LET h == probe.currentFuelHeight
        H == probe.tankHeight
        n == probe.newFuelHeight
    IN  /\ n["consumption"] <= h /\ n["consumption"] >= 0
        /\ n["consumption"] = 0
              \/ (h - n["consumption"] >= 5000 /\ h - n["consumption"] < 30000)
        /\ n["emergency"] <= h /\ n["emergency"] >= 0
        /\ n["emergency"] = 0
              \/ (h - n["emergency"] >= 0 /\ h - n["emergency"] < 5000)
        /\ n["refill"] >= h /\ n["refill"] <= H
        /\ n["refill"] = H
              \/ (n["refill"] - h >= 20000 /\ n["refill"] - h < 100000)
        /\ Abs(n["stable"] - h) <= 5000
        /\ n["stable"] >= 0 /\ n["stable"] <= H
        /\ (h >= 0 /\ h <= H) =>
              \A sc \in Scenarios : n[sc] >= 0 /\ n[sc] <= H

PreviousRow(id) == readings[id[1]][id[2] - 1]

\* C24: also when a manual trigger and an automated cycle tick the same tank
\* concurrently, an event published by a tick for a reading that is not the
\* tank's first has a percentage more than 0.1 away from the percentage of
\* the reading persisted immediately before it for that tank.
C24_GateAgainstPreviousRow ==
    \A k \in DOMAIN published :
        LET e == published[k]
        IN  (e.call \in TickTags /\ e.readingId[2] > 1) =>
                Abs(Row(e.readingId).fuelLevelPercentage
                    - PreviousRow(e.readingId).fuelLevelPercentage) > 10

\* The rows the calls of a cycle have inserted for one tank
CycleRowsOf(o, tankId) == {id \in RowIdsByOp("cron", o) : id[1] = tankId}

\* C25: a failure-free run of performAutomatedReadings ticks every tank of
\* getAllTanks exactly once, in that order, one after the other, so that
\* every tank has got exactly one reading from the cycle; and a cycle that
\* has started comes to an end.
C25_CycleTicksEachTankOnce ==
    /\ [](\A o \in DOMAIN ops["cron"] :
            LET op == ops["cron"][o]
            IN  /\ \A c \in DOMAIN op.calls :
                      /\ c <= Len(getAllTanks)
                      /\ op.calls[c].tankId = getAllTanks[c].id
                      /\ c < Len(op.calls) => op.calls[c].state = "done"
                /\ op.state = "done" =>
                      /\ Len(op.calls) = Len(getAllTanks)
                      /\ \A c \in DOMAIN op.calls :
                            /\ op.calls[c].state = "done"
                            /\ Cardinality(RowIdsBy(<<"cron", o, c>>)) = 1
                      /\ \A i \in DOMAIN getAllTanks :
                            Cardinality(CycleRowsOf(o, getAllTanks[i].id)) = 1)
    /\ (procs["cron"].pc # "idle") ~> (procs["cron"].pc = "idle")

\* C25 witness: a cycle has completed over both tanks and a manual trigger
\* has completed for one of these tanks as well.
C25_Witness ==
    /\ Len(getAllTanks) = 2
    /\ \E o \in DOMAIN ops["cron"] :
          /\ ops["cron"][o].state = "done"
          /\ Len(ops["cron"][o].calls) = 2
          /\ Cardinality(RowIdsByOp("cron", o)) = 2
    /\ \E p \in Manuals : \E o \in DOMAIN ops[p] :
          ops[p][o].state = "done" /\ RowIdsByOp(p, o) # {}

\* stored is a multiple of the unit nearest to raw (both in the raw unit)
Nearest(stored, raw, unit) == 2 * Abs(stored * unit - raw) <= unit

\* stored is an integer nearest to (qr[1] + qr[2] / m) / c
NearestQR(stored, qr, m, c) ==
    LET a == qr[1] \div c
        b == qr[1] % c
        below == 2 * b <= c - 2 \/ (2 * b = c - 1 /\ 2 * qr[2] < m)
        above == 2 * b >= c + 1 \/ (2 * b = c /\ qr[2] > 0)
                    \/ (2 * b = c - 1 /\ 2 * qr[2] > m)
    IN  /\ stored \in {a, a + 1}
        /\ stored = a => ~above
        /\ stored = a + 1 => ~below

\* C26: rounding policy.  The reading calculateFuelLevel returns, which is
\* the reading persisted, holds the raw distance rounded to the nearest
\* 0.01 cm, the clamped height to the nearest 0.001 m, the volume to the
\* nearest 0.01 l and volume / capacity * 100 to the nearest 0.01.
C26_RoundingPolicy ==
    probe.fn = "calculateFuelLevel" =>
        LET tank == probe.tank
            actualFuelHeight ==
                Max(0, Min(tank.sensorHeight - probe.distanceToFuel, tank.height))
            fuelVolumeLiters == calculateCylindricalVolume(actualFuelHeight, tank.diameter)
        IN  /\ Nearest(probe.reading.distanceToFuel, probe.distanceToFuel, 100)
            /\ Nearest(probe.reading.fuelHeight, actualFuelHeight, 1000)
            /\ NearestQR(probe.reading.fuelLevelLiters, fuelVolumeLiters, VolMod, 100)
            /\ NearestQR(probe.reading.fuelLevelPercentage, fuelVolumeLiters, VolMod,
                         tank.capacity)

\* C26 witness: a raw distance 0.0099 cm above a multiple of 0.01 cm is
\* stored rounded up, with a height and a volume that are no multiples of
\* their units either.
C26_Witness ==
    /\ probe.fn = "calculateFuelLevel"
    /\ probe.distanceToFuel % 100 = 99
    /\ probe.reading.distanceToFuel = probe.distanceToFuel \div 100 + 1
    /\ (probe.tank.sensorHeight - probe.distanceToFuel) % 1000 # 0
    /\ probe.reading.fuelLevelLiters > 0
    /\ calculateCylindricalVolume(
           Max(0, Min(probe.tank.sensorHeight - probe.distanceToFuel,
                      probe.tank.height)), probe.tank.diameter)[1] % 100 # 0

\* The readings a tick derives for a tank from half the tank height
FallbackReadings(tank) ==
    {calculateFuelLevel(
         simulateSensorReading(tank.id, tank.height \div 2, tank.height,
                               random, uDelta, uNoise), tank)
        : random \in ScenarioDraws, uDelta \in DeltaDraws, uNoise \in NoiseDraws}

\* C27: a completed tick that fetched no prior reading has persisted exactly
\* one reading, derived from the simulator's answer for a current height of
\* half the tank height, and has published exactly one event, for that
\* reading.
C27_FirstTickFallback ==
    \A t \in TickTags :
        (Call(t).state = "done" /\ Call(t).latestId = <<>>) =>
            /\ Cardinality(RowIdsBy(t)) = 1
            /\ \E data \in FallbackReadings(TankOf(Call(t).tankId)) :
                  /\ SavedBy(t).tankId = data.tankId
                  /\ SavedBy(t).distanceToFuel = data.distanceToFuel
                  /\ SavedBy(t).fuelLevelLiters = data.fuelLevelLiters
                  /\ SavedBy(t).fuelLevelPercentage = data.fuelLevelPercentage
                  /\ SavedBy(t).fuelHeight = data.fuelHeight
            /\ Cardinality(EventsBy(t)) = 1
            /\ \A k \in EventsBy(t) : published[k].readingId \in RowIdsBy(t)

\* C27 witness: a manual tick of a tank without readings has completed, and
\* its reading, the tank's first, came from a stable step around 50 %.
C27_Witness ==
    \E t \in TickTags :
        /\ Call(t).state = "done"
        /\ Call(t).latestId = <<>>
        /\ RowIdsBy(t) = {<<Call(t).tankId, 1>>}
        /\ EventsBy(t) # {}
        /\ SavedBy(t).fuelHeight * 1000 = TankOf(Call(t).tankId).height \div 2 - 1000

TimerArmed(s) ==
    s.reconnectTimer = [state |-> "pending", remaining |-> reconnectInterval]

\* C28: the connection state machine.  In every step: when an established
\* stream ends or errors, or a request that was not aborted fails, the
\* status becomes disconnected and the timer is armed with the full
\* reconnectInterval; the timer fires only when that interval has passed and
\* then connectToSSE is attempted, opening a request unless connected; a
\* pending timer is given up only by disconnect(); and no step opens a new
\* connection while the status is connected.  A pending timer does not stay
\* as it is for ever: time passes, and a due timer fires unless disconnect()
\* clears it or another failure arms it again.
C28_ReconnectStateMachine ==
    /\ [][/\ \A c \in Connections :
                (sse.conns[c] = "open" /\ sse'.conns[c] = "free") =>
                    /\ sse'.event \in {"stream_end", "stream_error"}
                    /\ ~sse'.connectionStatus
                    /\ TimerArmed(sse')
          /\ \A c \in Connections :
                (sse.conns[c] = "inflight" /\ sse'.conns[c] = "free") =>
                    /\ sse'.event = "connect_error"
                    /\ ~sse'.connectionStatus
                    /\ TimerArmed(sse')
          /\ (sse.reconnectTimer.state = "pending"
                /\ sse'.reconnectTimer.state = "fired") =>
                    /\ sse.reconnectTimer.remaining = 0
                    /\ sse'.event \in {"timer_connect", "timer_already_connected"}
                    /\ ~sse.connectionStatus =>
                          \E c \in Connections :
                             sse.conns[c] = "free" /\ sse'.conns[c] = "inflight"
          /\ (sse.reconnectTimer.state = "pending"
                /\ sse'.reconnectTimer.state = "undefined") =>
                    sse'.event = "disconnect"
          /\ sse.connectionStatus =>
                \A c \in Connections :
                   sse.conns[c] = "free" => sse'.conns[c] = "free"]_vars
    /\ \A r \in {0, reconnectInterval \div 2, reconnectInterval} :
          (sse.reconnectTimer = [state |-> "pending", remaining |-> r])
             ~> (sse.reconnectTimer # [state |-> "pending", remaining |-> r])

\* C28 witness: the reconnect timer has fired and connectToSSE has opened a
\* new request, the only connection there is.
C28_Witness ==
    /\ sse.event = "timer_connect"
    /\ sse.reconnectTimer.state = "fired"
    /\ ~sse.connectionStatus
    /\ ~sse.disconnected
    /\ \E c \in Connections : Underway(sse) = {c} /\ sse.conns[c] = "inflight"

\* C29: while disconnect() has been called and connectToSSE has not been
\* called by a caller since, the status is disconnected, no reconnect timer
\* is pending and the timer has not attempted a reconnection.
C29_DisconnectIsFinal ==
    sse.disconnected =>
        /\ ~sse.connectionStatus
        /\ sse.reconnectTimer.state # "pending"
        /\ sse.event \notin {"timer_connect", "timer_already_connected"}

\* C30: at most one upstream connection, in-flight request or open stream,
\* exists at any time.
C30_AtMostOneConnection ==
    Cardinality(Live(sse)) <= 1

\* The row with the greatest timestamp among the first n rows of a tank
LatestAmong(tankId, n) ==
    CHOOSE r \in {readings[tankId][k] : k \in 1..n} :
        \A k \in 1..n : readings[tankId][k].timestamp <= r.timestamp

\* For the tanks ts[k], ts[k + 1], ... in order: the latest row of each tank
\* among its first n[k] rows, nothing for a tank with n[k] = 0
RECURSIVE LatestRows(_, _, _)
LatestRows(ts, n, k) ==
    IF k > Len(ts) THEN <<>>
    ELSE (IF n[k] = 0 THEN <<>> ELSE <<LatestAmong(ts[k].id, n[k])>>)
            \o LatestRows(ts, n, k + 1)

\* C31 as stated: what getAllLatestReadings has returned is, in tank
\* creation order, the reading with the greatest timestamp of every tank
\* that had a reading when the call returned, and nothing else.
C31_LatestOfEachTank ==
    (api.fn = "getAllLatestReadings" /\ api.status = "ok") =>
        api.body = LatestRows(api.tanks,
                              [k \in DOMAIN api.tanks |-> api.atReturn[api.tanks[k].id]],
                              1)

\* C31, amended: what getAllLatestReadings has returned is, in tank creation
\* order, for every tank the reading that had the greatest timestamp when
\* the call read that tank, and nothing for a tank that had no reading then;
\* when no reading was inserted during the call this is the latest reading
\* of every tank that has one; no step of the call changes tanks, readings
\* or published events.
C31_LatestOfEachTankWhenRead ==
    /\ []((api.fn = "getAllLatestReadings" /\ api.status = "ok") =>
            /\ api.tanks = getAllTanks
            /\ api.body = LatestRows(api.tanks, api.atRead, 1)
            /\ api.atList = api.atReturn =>
                  api.body = LatestRows(api.tanks,
                                        [k \in DOMAIN api.tanks |->
                                            api.atReturn[api.tanks[k].id]], 1))
    /\ [][api' # api =>
            tanks' = tanks /\ readings' = readings /\ published' = published]_vars

\* C31 witness: a call has returned the latest readings of both tanks, and
\* a manual trigger had inserted a newer reading for the first tank after
\* the call had read it.
C31_Witness ==
    /\ api.fn = "getAllLatestReadings"
    /\ api.status = "ok"
    /\ Len(api.body) = 2
    /\ api.atRead[1] < api.atReturn[api.tanks[1].id]
    /\ api.body[1].id = <<api.tanks[1].id, api.atRead[1]>>

\* C32: for a tank whose sensorHeight equals its height, the fuelHeight of
\* the reading a tick derives differs from the fuelHeight of the latest
\* stored reading it started from by at most 0.11 m plus the rounding to the
\* millimetre (half a millimetre).
C32_BoundedStep ==
    (/\ probe.fn = "simulateAndProcessReading"
     /\ probe.tank.sensorHeight = probe.tank.height) =>
        2 * Abs(probe.readingData.fuelHeight - probe.latestFuelHeight) <= 2 * 110 + 1

\* C32 witness: a refill with the largest increase and the most negative
\* noise, on a tank with its sensor at tank height and room for the whole
\* step, raises the stored height by more than 0.10 m.
C32_Witness ==
    /\ probe.fn = "simulateAndProcessReading"
    /\ probe.tank.sensorHeight = probe.tank.height
    /\ probe.scenario = "refill"
    /\ probe.uDelta = 99
    /\ probe.uNoise = 0
    /\ probe.readingData.fuelHeight - probe.latestFuelHeight > 100

\* C33: at most one timer of scheduleReconnect is pending in the event loop
\* at any time, and it is the one this.reconnectTimer refers to.  A stream
\* that terminates, reporting 'end', 'error' or both, leaves exactly one
\* timer pending, armed with the full interval; a reconnection attempt of
\* the timer uses that timer up, so that no further attempt follows unless
\* the timer is armed again.
C33_SingleReconnectTimer ==
    /\ [](/\ sse.timers <= 1
          /\ sse.timers = 1 <=> sse.reconnectTimer.state = "pending")
    /\ [][/\ \A c \in Connections :
                (/\ sse.conns[c] \in {"open", "open_aborted"}
                 /\ sse'.conns[c] = "free"
                 /\ sse'.event \in {"stream_end", "stream_error"}) =>
                    /\ sse'.reports \in {1, 2}
                    /\ sse'.timers = 1
                    /\ TimerArmed(sse')
          /\ (/\ sse'.event \in {"timer_connect", "timer_already_connected"}
              /\ sse'.reconnectTimer # sse.reconnectTimer) =>
                    /\ sse.timers = 1
                    /\ sse'.timers = 0]_vars

\* C33 witness: a stream has reported both 'error' and 'end', the handler
\* of the second event has cancelled the timer armed by the first, and
\* exactly one timer is pending, with the full interval to run.
C33_Witness ==
    /\ sse.event \in {"stream_end", "stream_error"}
    /\ sse.reports = 2
    /\ sse.timers = 1
    /\ TimerArmed(sse)
    /\ Live(sse) = {}

=============================================================================
